---- MODULE Spec2Model ----
(***************************************************************************)
(* Verification model of SpectraDigitizer: the detection, calibration and  *)
(* curve-tracing library (src/lib) and the host state machine (App.tsx).   *)
(*                                                                         *)
(* JavaScript numbers are modelled as exact rationals <<n, d>> in lowest   *)
(* terms with d > 0 (d = 0 encodes +/-Infinity and <<0, 0>> encodes NaN),  *)
(* so that fractional pixel coordinates, run midpoints and calibration     *)
(* scales are computed as the code computes them, without rounding error.  *)
(***************************************************************************)
EXTENDS Integers, Sequences, FiniteSets, TLC

VARIABLES
    clampArgs,   \* clampRect: the call's arguments [r, w, h], or None
    clampOut,    \* clampRect: the returned rect, or None
    calArgs,     \* buildPixelToDataMapper: the call's arguments, or None
    calOut,      \* buildPixelToDataMapper: the mapper or the error, or None
    trArgs,      \* traceCurveWithSeeds: the call's arguments, or None
    trOut,       \* traceCurveWithSeeds: the outcome, or None
    runLog,      \* the calls of traceCurveWithSeeds that have returned: [args, pts]
    runFrame,    \* the locals of the call of traceCurveWithSeeds in progress, or None
    detArgs,     \* detectAxesAndTicksTwoRois: the call's arguments, or None
    detOut,      \* detectAxesAndTicksTwoRois: the returned axes and ticks, or None
    state,           \* App: the AppState held by useState
    error,           \* App: the error banner, or None
    axisMode,        \* App: "x" or "y"
    interactionMode, \* App: "axis", "calibration" or "curve"
    calibStage,      \* App: "X1", "X2", "Y1", "Y2" or "done"
    uploads,         \* App: the calls of onUpload awaiting loadImageBitmap
    bitmaps,         \* the number of ImageBitmaps created so far
    closed,          \* the ImageBitmaps that have been closed
    callArgs,    \* a call of one of the other library functions: its arguments, or None
    callOut      \* that call's result, or None

clampVars == <<clampArgs, clampOut>>
calVars   == <<calArgs, calOut>>
trVars    == <<trArgs, trOut>>
runVars   == <<runLog, runFrame>>
detVars   == <<detArgs, detOut>>
uiVars    == <<axisMode, interactionMode, calibStage>>
bmpVars   == <<uploads, bitmaps, closed>>
hostVars  == <<state, error, uiVars, bmpVars>>
callVars  == <<callArgs, callOut>>

vars == <<clampVars, calVars, trVars, runVars, detVars, hostVars, callVars>>

\* an absent value (undefined), and a present one
None == [some |-> FALSE]
Some(v) == [some |-> TRUE, v |-> v]

\* a function that has not been called
ClampIdle == clampArgs = None /\ clampOut = None
CalIdle   == calArgs = None /\ calOut = None
TraceIdle == trArgs = None /\ trOut = None
RunIdle   == runLog = <<>> /\ runFrame = None
DetIdle   == detArgs = None /\ detOut = None
HostIdle  ==
    /\ state = None /\ error = None
    /\ axisMode = "x" /\ interactionMode = "axis" /\ calibStage = "X1"
    /\ uploads = {} /\ bitmaps = 0 /\ closed = {}
CallIdle  == callArgs = None /\ callOut = None
LibIdle   == ClampIdle /\ CalIdle /\ TraceIdle /\ RunIdle /\ DetIdle /\ CallIdle
libVars   == <<clampVars, calVars, trVars, runVars, detVars, callVars>>
\* every variable but callArgs and callOut
restVars  == <<clampVars, calVars, trVars, runVars, detVars, hostVars>>
RestIdle  == ClampIdle /\ CalIdle /\ TraceIdle /\ RunIdle /\ DetIdle /\ HostIdle

-----------------------------------------------------------------------------
(* JavaScript number arithmetic, exact *)

Abs(n) == IF n < 0 THEN -n ELSE n

Sgn(n) == IF n < 0 THEN -1 ELSE IF n > 0 THEN 1 ELSE 0

RECURSIVE GCD(_, _)
GCD(a, b) == IF b = 0 THEN a ELSE GCD(b, a % b)

\* the number n/d in lowest terms
Rat(n, d) ==
    IF d = 0 THEN <<Sgn(n), 0>>
    ELSE LET g == GCD(Abs(n), Abs(d))
             s == IF d < 0 THEN -1 ELSE 1
         IN  <<(s * n) \div g, (s * d) \div g>>

Num(n) == <<n, 1>>

\* (integers are added and multiplied directly: the result is already in
\* lowest terms)
RAdd(a, b) ==
    IF a[2] = 1 /\ b[2] = 1 THEN <<a[1] + b[1], 1>>
    ELSE Rat(a[1] * b[2] + b[1] * a[2], a[2] * b[2])
RSub(a, b) ==
    IF a[2] = 1 /\ b[2] = 1 THEN <<a[1] - b[1], 1>>
    ELSE Rat(a[1] * b[2] - b[1] * a[2], a[2] * b[2])
RMul(a, b) ==
    IF a[2] = 1 /\ b[2] = 1 THEN <<a[1] * b[1], 1>>
    ELSE Rat(a[1] * b[1], a[2] * b[2])
RDiv(a, b) == IF b = <<1, 1>> THEN a ELSE Rat(a[1] * b[2], a[2] * b[1])
RLt(a, b)  == a[1] * b[2] < b[1] * a[2]
RLe(a, b)  == a[1] * b[2] <= b[1] * a[2]
RAbs(a)    == <<Abs(a[1]), a[2]>>
RMax(a, b) == IF RLt(a, b) THEN b ELSE a
RMin(a, b) == IF RLt(b, a) THEN b ELSE a
\* Math.floor, Math.round (half up) and the |0 truncation, as integers
RFloor(a)  == a[1] \div a[2]
RRound(a)  == (2 * a[1] + a[2]) \div (2 * a[2])
RTrunc(a)  == IF a[1] < 0 THEN -((-a[1]) \div a[2]) ELSE a[1] \div a[2]
\* a < 1/m for a positive integer m (the 1e-6 and 1e-9 guards), computed
\* without forming a * m
RLtInv(a, m) == a[1] <= (a[2] - 1) \div m

\* a loop over lo .. hi that carries the state st through Op, evaluated by
\* halves
RECURSIVE Fold(_, _, _, _)
Fold(Op(_, _), lo, hi, st) ==
    IF lo > hi THEN st
    ELSE IF lo = hi THEN Op(st, lo)
    ELSE LET mid  == (lo + hi) \div 2
             left == Fold(Op, lo, mid, st)
         IN  IF left = left THEN Fold(Op, mid + 1, hi, left) ELSE st

\* the element of a set of one element: The({ f(v) : v \in { x } }) is f(x)
\* with x evaluated once, however often f uses it
The(S) == CHOOSE r \in S : TRUE

\* integer square root: the largest r with r * r <= n
RECURSIVE Isqrt(_)
Isqrt(n) ==
    IF n < 2 THEN n
    ELSE LET s == 2 * Isqrt(n \div 4)
         IN  IF (s + 1) * (s + 1) <= n THEN s + 1 ELSE s

\* resolution of an irrational square root: rounded down to 1/SqrtScale
SqrtScale == 16

\* Math.sqrt: exact when the root is rational, else rounded down
RSqrt(a) ==
    LET rn == Isqrt(a[1])
        rd == Isqrt(a[2])
    IN  IF rn * rn = a[1] /\ rd * rd = a[2]
        THEN Rat(rn, rd)
        ELSE Rat(Isqrt(a[1] * a[2] * SqrtScale * SqrtScale), a[2] * SqrtScale)


\* The arithmetic of the detection code and the functions of detect.ts are
\* applied through one recursive operator: f(x, y) is invoke("f", <<x, y>>),
\* which evaluates the arguments once and applies the body of f.
RECURSIVE invoke(_, _)

\* curve.ts: traceCurveWithSeeds, as called
traceCurveWithSeeds(a) == invoke("traceCurveWithSeeds", <<a>>)

\* App.tsx: the calls of detectAxesAndTicksTwoRois and traceCurveWithSeeds
detected(crop, rX, rY) == invoke("detected", <<crop, rX, rY>>)
traced(args) == invoke("traced", <<args>>)
traceDir(a, x0, y0, dir) == invoke("traceDir", <<a, x0, y0, dir>>)
chooseNextY(runs, yPrev, yPrev2, mode, maxJump) == invoke("chooseNextY", <<runs, yPrev, yPrev2, mode, maxJump>>)
chooseInitialY(runs, seedY, mode) == invoke("chooseInitialY", <<runs, seedY, mode>>)
findRunsInColumn(a, x) == invoke("findRunsInColumn", <<a, x>>)

\* naturals beyond the machine word (the sums of the Otsu scan): digits in
\* base BigBase, least significant first, no leading zero
BigBase == 10000

RECURSIVE Big(_)
Big(n) == IF n = 0 THEN <<>> ELSE <<n % BigBase>> \o Big(n \div BigBase)

RECURSIVE BigAdd(_, _, _)
BigAdd(a, b, carry) ==
    IF a = <<>> /\ b = <<>> THEN Big(carry)
    ELSE LET da == IF a = <<>> THEN 0 ELSE a[1]
             db == IF b = <<>> THEN 0 ELSE b[1]
             s  == da + db + carry
         IN  <<s % BigBase>> \o BigAdd(IF a = <<>> THEN a ELSE Tail(a),
                                       IF b = <<>> THEN b ELSE Tail(b), s \div BigBase)

RECURSIVE BigTrim(_)
BigTrim(a) ==
    IF a = <<>> THEN a
    ELSE IF a[Len(a)] = 0 THEN BigTrim(SubSeq(a, 1, Len(a) - 1)) ELSE a

\* a - b for a >= b, digit by digit
RECURSIVE BigSubDigits(_, _, _)
BigSubDigits(a, b, borrow) ==
    IF a = <<>> THEN <<>>
    ELSE LET db == IF b = <<>> THEN 0 ELSE b[1]
             d  == a[1] - db - borrow
         IN  <<IF d < 0 THEN d + BigBase ELSE d>>
             \o BigSubDigits(Tail(a), IF b = <<>> THEN b ELSE Tail(b), IF d < 0 THEN 1 ELSE 0)

RECURSIVE BigCmpFrom(_, _, _)
BigCmpFrom(a, b, i) ==
    IF i = 0 THEN 0
    ELSE IF a[i] # b[i] THEN (IF a[i] < b[i] THEN -1 ELSE 1)
    ELSE BigCmpFrom(a, b, i - 1)

\* -1, 0 or 1 as a < b, a = b or a > b
BigCmpDigits(a, b) ==
    IF Len(a) # Len(b) THEN (IF Len(a) < Len(b) THEN -1 ELSE 1)
    ELSE BigCmpFrom(a, b, Len(a))

BigCmp(a, b) == invoke("BigCmp", <<a, b>>)

\* |a - b|
BigDistDigits(a, b) ==
    BigTrim(IF BigCmpDigits(a, b) >= 0 THEN BigSubDigits(a, b, 0)
            ELSE BigSubDigits(b, a, 0))

BigDist(a, b) == invoke("BigDist", <<a, b>>)

RECURSIVE BigMulDigit(_, _, _)
BigMulDigit(a, d, carry) ==
    IF a = <<>> THEN Big(carry)
    ELSE LET p == a[1] * d + carry
         IN  <<p % BigBase>> \o BigMulDigit(Tail(a), d, p \div BigBase)

RECURSIVE BigMulDigits(_, _)
BigMulDigits(a, b) ==
    IF a = <<>> \/ b = <<>> THEN <<>>
    ELSE The({ BigTrim(BigAdd(BigMulDigit(a, b[1], 0),
                              IF rest = <<>> THEN rest ELSE <<0>> \o rest, 0)) :
               rest \in { BigMulDigits(a, Tail(b)) } })

BigMul(a, b) == invoke("BigMul", <<a, b>>)

\* the powers of two up to 2^160, as Bigs
pow2Table ==
    Fold(LAMBDA t, k : Append(t, BigMulDigit(t[k], 2, 0)), 1, 160, <<Big(1)>>)

pow2(k) == invoke("pow2", <<k>>)

\* the number of binary digits of a Big n > 0
bitLengthBody(n) ==
    CHOOSE k \in 13 * (Len(n) - 1) + 1 .. 14 * Len(n) :
        BigCmp(pow2(k - 1), n) <= 0 /\ BigCmp(n, pow2(k)) < 0

bitLength(n) == invoke("bitLength", <<n>>)

\* a divided by a machine integer d (0 < d < 2^17): quotient and remainder
RECURSIVE BigDivDigits(_, _)
BigDivDigits(a, d) ==
    IF a = <<>> THEN [q |-> <<>>, r |-> 0]
    ELSE The({ [q |-> <<(hi.r * BigBase + a[1]) \div d>> \o hi.q,
                r |-> (hi.r * BigBase + a[1]) % d] :
               hi \in { BigDivDigits(Tail(a), d) } })

BigDiv(a, d) == invoke("BigDiv", <<a, d>>)

\* a divided by 2^j, rounded down
RECURSIVE BigShiftRight(_, _)
BigShiftRight(a, j) ==
    IF j = 0 THEN a
    ELSE IF j > 13 THEN BigShiftRight(BigDiv(a, 8192), j - 13)
    ELSE BigDiv(a, pow2(j)[1])

\* IEEE-754 binary64, the number type of JavaScript. A positive double is
\* <<m, e>> with value m * 2^e and 2^52 <= m < 2^53 (m a Big); zero is
\* FZero. (No value of the Otsu scan leaves the normal range.)
FZero == <<Big(0), 0>>

\* the s for which (n / d) * 2^s lies in [2^52, 2^53)
binaryShift(n, d) ==
    LET s0 == 53 - (bitLength(n) - bitLength(Big(d)))
        num(s) == IF s > 0 THEN BigMul(n, pow2(s)) ELSE n
        den(s) == IF s < 0 THEN BigMul(Big(d), pow2(-s)) ELSE Big(d)
    IN  CHOOSE c \in { s0 - 1, s0, s0 + 1 } :
            /\ BigCmp(BigMul(den(c), pow2(52)), num(c)) <= 0
            /\ BigCmp(num(c), BigMul(den(c), pow2(53))) < 0

\* the quotient q = floor((n / d) * 2^s), rounded to nearest, ties to even
roundQuotient(n, d, e, s, q) ==
    LET num == IF s > 0 THEN BigMul(n, pow2(s)) ELSE n
        den == IF s < 0 THEN BigMul(Big(d), pow2(-s)) ELSE Big(d)
    IN  The({ The({ IF m = pow2(53) THEN <<pow2(52), e - s + 1>> ELSE <<m, e - s>> :
                    m \in { IF half > 0 \/ (half = 0 /\ q[1] % 2 = 1)
                            THEN BigAdd(q, Big(1), 0) ELSE q } }) :
              half \in { BigCmp(BigMul(BigDist(num, BigMul(q, den)), Big(2)), den) } })

\* round to nearest, ties to even: the double nearest to (n / d) * 2^e, for
\* a Big n and a machine integer d
FRoundBody(n, d, e) ==
    IF n = Big(0) THEN FZero
    ELSE The({ The({ roundQuotient(n, d, e, s, q) :
                     q \in { IF s >= 0
                             THEN BigDiv(IF s > 0 THEN BigMul(n, pow2(s)) ELSE n, d)
                             ELSE BigDiv(BigShiftRight(n, -s), d) } }) :
               s \in { binaryShift(n, d) } })

FRound(n, d, e) == invoke("FRound", <<n, d, e>>)

\* a / b for integers a >= 0, b > 0
FDiv(a, b) == FRound(Big(a), b, 0)

\* |x - y| (rounding is symmetric in the sign)
FDistBody(a, b) ==
    IF a = FZero THEN b
    ELSE IF b = FZero THEN a
    ELSE LET e == IF a[2] < b[2] THEN a[2] ELSE b[2]
         IN  FRound(BigDist(BigMul(a[1], pow2(a[2] - e)),
                            BigMul(b[1], pow2(b[2] - e))), 1, e)

FDist(x, y) == invoke("FDist", <<x, y>>)

\* x + y
FAddBody(a, b) ==
    IF a = FZero THEN b
    ELSE IF b = FZero THEN a
    ELSE LET e == IF a[2] < b[2] THEN a[2] ELSE b[2]
         IN  FRound(BigAdd(BigMul(a[1], pow2(a[2] - e)),
                           BigMul(b[1], pow2(b[2] - e)), 0), 1, e)

FAdd(x, y) == invoke("FAdd", <<x, y>>)

\* the double of an integer n >= 0
FInt(n) == FRound(Big(n), 1, 0)

\* x | 0 for 0 <= x < 2^26: the integer part
FTruncBody(a) ==
    IF a = FZero THEN 0
    ELSE The({ IF q = <<>> THEN 0
               ELSE IF Len(q) = 1 THEN q[1]
               ELSE q[1] + BigBase * q[2] :
               q \in { IF a[2] >= 0 THEN BigMul(a[1], pow2(a[2]))
                       ELSE BigShiftRight(a[1], -a[2]) } })

FTrunc(x) == invoke("FTrunc", <<x>>)

\* x * y
FMulBody(a, b) ==
    IF a = FZero \/ b = FZero THEN FZero
    ELSE FRound(BigMul(a[1], b[1]), 1, a[2] + b[2])

FMul(x, y) == invoke("FMul", <<x, y>>)

\* -1, 0 or 1 as x < y, x = y or x > y
FCmpBody(a, b) ==
    IF a = FZero THEN (IF b = FZero THEN 0 ELSE -1)
    ELSE IF b = FZero THEN 1
    ELSE IF a[2] # b[2] THEN (IF a[2] < b[2] THEN -1 ELSE 1)
    ELSE BigCmp(a[1], b[1])

FCmp(x, y) == invoke("FCmp", <<x, y>>)

-----------------------------------------------------------------------------
(* detect.ts: the functions, as called *)

clampRect(r, w, h) == invoke("clampRect", <<r, w, h>>)

grayAt(px) == invoke("grayAt", <<px>>)

varBetween(sum, sumB, wB, wF) == invoke("varBetween", <<sum, sumB, wB, wF>>)

isInk(ink, x, y) == invoke("isInk", <<ink, x, y>>)

otsuThresholdFromRect(img, rect) == invoke("otsuThresholdFromRect", <<img, rect>>)

buildInkFn(img, rectForThresh) == invoke("buildInkFn", <<img, rectForThresh>>)

findXAxisY(img, roi, ink) == invoke("findXAxisY", <<img, roi, ink>>)

findYAxisX(img, roi, ink) == invoke("findYAxisX", <<img, roi, ink>>)

candidatesX(img, roi, axisY, ink) == invoke("candidatesX", <<img, roi, axisY, ink>>)

candidatesY(img, roi, axisX, ink) == invoke("candidatesY", <<img, roi, axisX, ink>>)

detectXTicks(img, roi, axisY, ink) == invoke("detectXTicks", <<img, roi, axisY, ink>>)

detectYTicks(img, roi, axisX, ink) == invoke("detectYTicks", <<img, roi, axisX, ink>>)

detectAxesAndTicksTwoRois(args) == invoke("detectAxesAndTicksTwoRois", <<args>>)

detectReads(args) == invoke("detectReads", <<args>>)

-----------------------------------------------------------------------------
(* detect.ts: clampRect *)

clampRect_noMinSize(r, w, h) ==
    LET x  == RMax(Num(0), RMin(RSub(w, Num(1)), r.x))
        y  == RMax(Num(0), RMin(RSub(h, Num(1)), r.y))
        rw == RMin(RSub(w, x), r.w)
        rh == RMin(RSub(h, y), r.h)
    IN  [x |-> x, y |-> y, w |-> rw, h |-> rh]

clampRectBody(r, w, h) ==
    LET x  == RMax(Num(0), RMin(RSub(w, Num(1)), r.x))
        y  == RMax(Num(0), RMin(RSub(h, Num(1)), r.y))
        rw == RMax(Num(1), RMin(RSub(w, x), r.w))
        rh == RMax(Num(1), RMin(RSub(h, y), r.h))
    IN  [x |-> x, y |-> y, w |-> rw, h |-> rh]

\* bounds of the clampRect inputs: buffer sides 1..ClampMaxDim, rect fields
\* in half-pixel steps from -1 to ClampMaxDim + 1
ClampMaxDim == 2

ClampVals == { Rat(k, 2) : k \in -2 .. (2 * ClampMaxDim + 2) }

ClampInit ==
    /\ CalIdle /\ TraceIdle /\ RunIdle /\ DetIdle /\ HostIdle /\ CallIdle
    /\ clampArgs \in [r : [x : ClampVals, y : ClampVals, w : ClampVals, h : ClampVals],
                      w : { Num(n) : n \in 1 .. ClampMaxDim },
                      h : { Num(n) : n \in 1 .. ClampMaxDim }]
    /\ clampOut = None

ClampApply ==
    /\ clampOut = None
    /\ clampOut' = Some(clampRect(clampArgs.r, clampArgs.w, clampArgs.h))
    /\ UNCHANGED <<clampArgs, calVars, trVars, runVars, detVars, hostVars, callVars>>

ClampNext == ClampApply

SpecClamp == ClampInit /\ [][ClampNext]_vars

\* C2: for every rect and every buffer size W x H, the rect returned by
\* clampRect lies inside the buffer and is at least 1 x 1:
\* 0 <= x, 0 <= y, x + w <= W, y + h <= H, w >= 1, h >= 1.
ClampInBounds ==
    clampOut.some =>
        /\ RLe(Num(0), clampOut.v.x)
        /\ RLe(Num(0), clampOut.v.y)
        /\ RLe(RAdd(clampOut.v.x, clampOut.v.w), clampArgs.w)
        /\ RLe(RAdd(clampOut.v.y, clampOut.v.h), clampArgs.h)
        /\ RLe(Num(1), clampOut.v.w)
        /\ RLe(Num(1), clampOut.v.h)

\* a negative, oversize rect has been clamped
ClampWitness ==
    /\ clampOut.some
    /\ RLt(clampArgs.r.x, Num(0))
    /\ RLt(clampArgs.w, clampArgs.r.w)
    /\ RLe(clampArgs.r.h, Num(0))
    /\ clampOut.v # clampArgs.r

-----------------------------------------------------------------------------
(* calibration.ts *)

Pt(x, y) == [x |-> Num(x), y |-> Num(y)]

dot(a, b) == RAdd(RMul(a.x, b.x), RMul(a.y, b.y))
sub(a, b) == [x |-> RSub(a.x, b.x), y |-> RSub(a.y, b.y)]
\* Math.hypot(a.x, a.y); along a grid direction it is the other component
norm(a) ==
    IF a.y[1] = 0 THEN RAbs(a.x)
    ELSE IF a.x[1] = 0 THEN RAbs(a.y)
    ELSE RSqrt(RAdd(RMul(a.x, a.x), RMul(a.y, a.y)))

\* the reciprocals of the 1e-9 and 1e-6 guards
NormEpsInv == 1000000000
DegenerateEpsInv == 1000000

normalize(a) ==
    LET n == norm(a)
    IN  IF RLtInv(n, NormEpsInv) THEN [x |-> Num(1), y |-> Num(0)]
        ELSE [x |-> RDiv(a.x, n), y |-> RDiv(a.y, n)]

DegenerateMsg == "Calibration points are degenerate (too close)."

\* the test that throws: either axis's projected span is below 1e-6
IsDegenerate_xOnly(denomX, denomY) == RLtInv(RAbs(denomX), DegenerateEpsInv)

IsDegenerate(denomX, denomY) ==
    \/ RLtInv(RAbs(denomX), DegenerateEpsInv)
    \/ RLtInv(RAbs(denomY), DegenerateEpsInv)

\* the returned closure, as the values it captures
buildPixelToDataMapper(args) ==
    LET vx == normalize(sub(args.pxX2, args.pxX1))
        vy == normalize(sub(args.pxY2, args.pxY1))
        dx == sub(args.pxX2, args.pxX1)
        dy == sub(args.pxY2, args.pxY1)
        denomX == dot(dx, vx)
        denomY == dot(dy, vy)
    IN  IF IsDegenerate(denomX, denomY)
        THEN [ok |-> FALSE, error |-> DegenerateMsg]
        ELSE [ok |-> TRUE,
              fn |-> [pxX1 |-> args.pxX1, pxY1 |-> args.pxY1,
                      vx |-> vx, vy |-> vy,
                      sx |-> RDiv(RSub(args.x2, args.x1), denomX),
                      sy |-> RDiv(RSub(args.y2, args.y1), denomY),
                      x1 |-> args.x1, y1 |-> args.y1]]

\* a call of the returned closure
applyMapper_fromSecond(m, p) ==
    LET relX == dot(sub(p, m.pxX1), m.vx)
        relY == dot(sub(p, m.pxY1), m.vy)
    IN  [X |-> RAdd(m.x1, RMul(m.sx, RSub(relX, Num(1)))),
         Y |-> RAdd(m.y1, RMul(m.sy, relY))]

applyMapper(m, p) ==
    LET relX == dot(sub(p, m.pxX1), m.vx)
        relY == dot(sub(p, m.pxY1), m.vy)
    IN  [X |-> RAdd(m.x1, RMul(m.sx, relX)),
         Y |-> RAdd(m.y1, RMul(m.sy, relY))]

\* calibration inputs: axis-aligned and oblique pixel pairs, equal and
\* distinct, increasing and decreasing values
CalPts == { Pt(0, 100), Pt(100, 100), Pt(0, 0), Pt(3, 4) }
CalValsX == { Num(0), Num(10) }
CalValsY == { Num(0), Num(1) }

CalInit ==
    /\ ClampIdle /\ TraceIdle /\ RunIdle /\ DetIdle /\ HostIdle /\ CallIdle
    /\ calArgs \in [pxX1 : CalPts, pxX2 : CalPts, pxY1 : CalPts, pxY2 : CalPts,
                    x1 : CalValsX, x2 : CalValsX, y1 : CalValsY, y2 : CalValsY]
    /\ calOut = None

CalBuild ==
    /\ calOut = None
    /\ calOut' = Some(buildPixelToDataMapper(calArgs))
    /\ UNCHANGED <<calArgs, clampVars, trVars, runVars, detVars, hostVars, callVars>>

CalNext == CalBuild

SpecCalib == CalInit /\ [][CalNext]_vars

\* points at which the built mapper is evaluated
CalQueries == { Pt(50, 50), Pt(0, 0), Pt(7, 1), Pt(100, 100) }

midpoint(p, q) == [x |-> RDiv(RAdd(p.x, q.x), Num(2)), y |-> RDiv(RAdd(p.y, q.y), Num(2))]
perp(v) == [x |-> RSub(Num(0), v.y), y |-> v.x]
plus(p, v) == [x |-> RAdd(p.x, v.x), y |-> RAdd(p.y, v.y)]

CalExample ==
    [pxX1 |-> Pt(0, 100), pxX2 |-> Pt(100, 100), pxY1 |-> Pt(0, 100), pxY2 |-> Pt(0, 0),
     x1 |-> Num(0), x2 |-> Num(10), y1 |-> Num(0), y2 |-> Num(1)]

CalObliqueBuilt ==
    /\ calOut.some /\ calOut.v.ok
    /\ calArgs.pxX1 = Pt(0, 0) /\ calArgs.pxX2 = Pt(3, 4)
    /\ calArgs.x1 # calArgs.x2

-----------------------------------------------------------------------------
(* blacklist.ts *)

distancePointToLine(p, line) ==
    LET v  == normalize(line.v)
        dx == RSub(p.x, line.p.x)
        dy == RSub(p.y, line.p.y)
    IN  RAbs(RSub(RMul(dx, v.y), RMul(dy, v.x)))

dist2(a, b) ==
    LET dx == RSub(a.x, b.x)
        dy == RSub(a.y, b.y)
    IN  RAdd(RMul(dx, dx), RMul(dy, dy))

\* the returned predicate, as the values it captures
buildBlacklist(args) ==
    [xAxisLine |-> args.xAxisLine, yAxisLine |-> args.yAxisLine,
     ticks |-> args.tickPointsX \o args.tickPointsY,
     axisBand |-> args.axisBand,
     tickR2 |-> RMul(args.tickRadius, args.tickRadius)]

\* (the mutation of C12: the comparisons are <= instead of <)
callBlacklist_atMost(bl, p) ==
    \/ RLe(distancePointToLine(p, bl.xAxisLine), bl.axisBand)
    \/ RLe(distancePointToLine(p, bl.yAxisLine), bl.axisBand)
    \/ \E i \in 1 .. Len(bl.ticks) : RLe(dist2(p, bl.ticks[i]), bl.tickR2)

\* a call of the returned predicate
callBlacklist(bl, p) ==
    \/ RLt(distancePointToLine(p, bl.xAxisLine), bl.axisBand)
    \/ RLt(distancePointToLine(p, bl.yAxisLine), bl.axisBand)
    \/ \E i \in 1 .. Len(bl.ticks) : RLt(dist2(p, bl.ticks[i]), bl.tickR2)

\* the calls of buildBlacklist and of the predicate it returns: an x axis
\* through (0,10), level or along (3,4); a y axis through (2,0), with a unit
\* or a longer direction; no, one or two ticks per axis; bands 0, 1, 4 and
\* radii 0, 2, 6; points on the lines, at the band and radius exactly, and
\* off them
BlXLines == { [p |-> Pt(0, 10), v |-> Pt(1, 0)], [p |-> Pt(0, 10), v |-> Pt(3, 4)] }
BlYLines == { [p |-> Pt(2, 0), v |-> Pt(0, 1)], [p |-> Pt(2, 0), v |-> Pt(0, 2)] }
BlTicksX == { <<>>, <<Pt(5, 10)>> }
BlTicksY == { <<>>, <<Pt(2, 4)>>, <<Pt(2, 4), Pt(2, 8)>> }
BlBands  == { Num(0), Num(1), Num(4) }
BlRadii  == { Num(0), Num(2), Num(6) }
BlPoints ==
    { Pt(x, y) : x \in { 0, 2, 3, 6, 9 }, y \in { 4, 6, 8, 10, 14 } }
    \cup { [x |-> Rat(13, 2), y |-> Rat(11, 2)], [x |-> Rat(5, 2), y |-> Num(20)], Pt(30, 30) }

BlInit ==
    /\ RestIdle
    /\ \E xl \in BlXLines : \E yl \in BlYLines : \E tx \in BlTicksX : \E ty \in BlTicksY :
       \E band \in BlBands : \E radius \in BlRadii : \E p \in BlPoints :
          callArgs = Some([xAxisLine |-> xl, yAxisLine |-> yl, tickPointsX |-> tx,
                           tickPointsY |-> ty, axisBand |-> band, tickRadius |-> radius,
                           p |-> p])
    /\ callOut = None

\* buildBlacklist(args)(p)
BlApply ==
    /\ callOut = None
    /\ callOut' = Some(callBlacklist(buildBlacklist(callArgs.v), callArgs.v.p))
    /\ UNCHANGED <<callArgs, restVars>>

BlNext == BlApply

SpecBlacklist == BlInit /\ [][BlNext]_vars

\* the perpendicular distance from p to the line is below band: the cross
\* product of p - line.p with the direction, squared, against the squared
\* band times the squared length of the direction
withinBand(p, line, band) ==
    LET dx    == RSub(p.x, line.p.x)
        dy    == RSub(p.y, line.p.y)
        cross == RSub(RMul(dx, line.v.y), RMul(dy, line.v.x))
    IN  /\ RLt(Num(0), band)
        /\ RLt(RMul(cross, cross), RMul(RMul(band, band), dot(line.v, line.v)))

onLine(p, line) ==
    RSub(RMul(RSub(p.x, line.p.x), line.v.y), RMul(RSub(p.y, line.p.y), line.v.x)) = Num(0)

withinRadius(p, ticks, radius) ==
    \E i \in 1 .. Len(ticks) :
        RLt(RAdd(RMul(RSub(p.x, ticks[i].x), RSub(p.x, ticks[i].x)),
                 RMul(RSub(p.y, ticks[i].y), RSub(p.y, ticks[i].y))),
            RMul(radius, radius))

\* C12: the predicate holds for p exactly when p is less than axisBand from
\* the x-axis line or the y-axis line, or less than tickRadius from a tick of
\* either axis; a point on an axis line is blacklisted whenever axisBand > 0.
BlacklistExact ==
    callOut.some =>
        LET a == callArgs.v
        IN  /\ callOut.v <=> \/ withinBand(a.p, a.xAxisLine, a.axisBand)
                             \/ withinBand(a.p, a.yAxisLine, a.axisBand)
                             \/ withinRadius(a.p, a.tickPointsX \o a.tickPointsY, a.tickRadius)
            /\ ((onLine(a.p, a.xAxisLine) \/ onLine(a.p, a.yAxisLine)) /\ RLt(Num(0), a.axisBand))
                   => callOut.v

\* a point blacklisted by a tick alone, and a point exactly axisBand from
\* the level x axis that is not blacklisted
BlTickOnly ==
    /\ callOut.some /\ callOut.v
    /\ ~withinBand(callArgs.v.p, callArgs.v.xAxisLine, callArgs.v.axisBand)
    /\ ~withinBand(callArgs.v.p, callArgs.v.yAxisLine, callArgs.v.axisBand)

BlAtBand ==
    /\ callOut.some /\ ~callOut.v
    /\ callArgs.v.xAxisLine.v = Pt(1, 0)
    /\ callArgs.v.axisBand = Num(4)
    /\ callArgs.v.p.y = Num(6)

-----------------------------------------------------------------------------
(* curve.ts *)

IMax(a, b) == IF a < b THEN b ELSE a
IMin(a, b) == IF b < a THEN b ELSE a

clamp(v, lo, hi) == IMax(lo, IMin(hi, v))

\* NaN as a number, and as a column index: Math.round, Math.min and Math.max
\* return NaN for NaN, NaN + 1 is NaN and every comparison with it is false
NaN == <<0, 0>>
NaNColumn == -(2 ^ 30)
columnNumber(x) == IF x = NaNColumn THEN NaN ELSE Num(x)

\* the RGB bytes of pixel (x, y) of a row-major buffer
pixelAt(roi, x, y) == roi.data[(y * roi.width + x) + 1]

RECURSIVE sumSeedColors(_, _, _)
sumSeedColors(roi, seeds, i) ==
    IF i > Len(seeds) THEN [r |-> 0, g |-> 0, b |-> 0]
    ELSE LET x    == clamp(RRound(seeds[i].x), 0, roi.width - 1)
             y    == clamp(RRound(seeds[i].y), 0, roi.height - 1)
             px   == pixelAt(roi, x, y)
             rest == sumSeedColors(roi, seeds, i + 1)
         IN  [r |-> px.r + rest.r, g |-> px.g + rest.g, b |-> px.b + rest.b]

computeAverageColor(roi, seeds) ==
    LET s == sumSeedColors(roi, seeds, 1)
        n == IMax(1, Len(seeds))
    IN  [r |-> RRound(Rat(s.r, n)), g |-> RRound(Rat(s.g, n)), b |-> RRound(Rat(s.b, n))]

\* distRgb(r, g, b, c) >= threshold, for a threshold >= 0, on the squares
distRgbAtLeast(px, c, threshold) ==
    LET dr == px.r - c.r
        dg == px.g - c.g
        db == px.b - c.b
    IN  dr * dr + dg * dg + db * db >= threshold * threshold

\* (the mutation of C21: the blacklist is not consulted)
rowMatches_anyPlace(a, x, y) ==
    ~distRgbAtLeast(pixelAt(a.roi, x, y), a.pickedColor, a.threshold)

\* the body of the row loop: is row y of column x part of the curve (ok is
\* the conjunction of the two tests, both without effect)
rowMatches(a, x, y) ==
    /\ ~callBlacklist(a.isBlacklistedPixel, [x |-> columnNumber(x), y |-> Num(y)])
    /\ \/ x = NaNColumn   \* data[NaN] is undefined, the distance NaN, NaN >= threshold false
       \/ ~distRgbAtLeast(pixelAt(a.roi, x, y), a.pickedColor, a.threshold)

\* (the mutation of C24: a run is closed on the row that ends it)
RECURSIVE scanColumn_closedAtRow(_, _, _, _, _, _)
scanColumn_closedAtRow(a, x, y, runs, inRun, runStart) ==
    IF y >= a.roi.height
    THEN IF inRun THEN Append(runs, [ymin |-> runStart, ymax |-> a.roi.height - 1]) ELSE runs
    ELSE LET ok == rowMatches(a, x, y)
         IN  IF ok /\ ~inRun THEN scanColumn_closedAtRow(a, x, y + 1, runs, TRUE, y)
             ELSE IF ~ok /\ inRun
                  THEN scanColumn_closedAtRow(a, x, y + 1, Append(runs, [ymin |-> runStart, ymax |-> y]), FALSE, runStart)
                  ELSE scanColumn_closedAtRow(a, x, y + 1, runs, inRun, runStart)

\* the row loop from row y on, with the loop's variables
RECURSIVE scanColumn(_, _, _, _, _, _)
scanColumn(a, x, y, runs, inRun, runStart) ==
    IF y >= a.roi.height
    THEN IF inRun THEN Append(runs, [ymin |-> runStart, ymax |-> a.roi.height - 1]) ELSE runs
    ELSE LET ok == rowMatches(a, x, y)
         IN  IF ok /\ ~inRun THEN scanColumn(a, x, y + 1, runs, TRUE, y)
             ELSE IF ~ok /\ inRun
                  THEN scanColumn(a, x, y + 1, Append(runs, [ymin |-> runStart, ymax |-> y - 1]), FALSE, runStart)
                  ELSE scanColumn(a, x, y + 1, runs, inRun, runStart)

findRunsInColumnBody(a, x) == scanColumn(a, x, 0, <<>>, FALSE, 0)

runRepresentativeY(run, mode) ==
    LET mid == Rat(run.ymin + run.ymax, 2)
    IN  IF mode = "median" THEN Num(RFloor(mid)) ELSE mid

\* (the mutation of C22: a run as close as the best one replaces it)
RECURSIVE closestRun_orEqual(_, _, _, _, _, _)
closestRun_orEqual(runs, target, mode, i, bestY, bestD) ==
    IF i > Len(runs) THEN [y |-> bestY, d |-> bestD]
    ELSE LET y == runRepresentativeY(runs[i], mode)
             d == RAbs(RSub(y, target))
         IN  IF RLe(d, bestD) THEN closestRun_orEqual(runs, target, mode, i + 1, y, d)
             ELSE closestRun_orEqual(runs, target, mode, i + 1, bestY, bestD)

\* the run loop of chooseInitialY and chooseNextY: the best y from run i on
RECURSIVE closestRun(_, _, _, _, _, _)
closestRun(runs, target, mode, i, bestY, bestD) ==
    IF i > Len(runs) THEN [y |-> bestY, d |-> bestD]
    ELSE LET y == runRepresentativeY(runs[i], mode)
             d == RAbs(RSub(y, target))
         IN  IF RLt(d, bestD) THEN closestRun(runs, target, mode, i + 1, y, d)
             ELSE closestRun(runs, target, mode, i + 1, bestY, bestD)

chooseInitialYBody(runs, seedY, mode) ==
    IF Len(runs) = 0 THEN None
    ELSE LET bestY == runRepresentativeY(runs[1], mode)
             bestD == RAbs(RSub(bestY, seedY))
         IN  Some(closestRun(runs, seedY, mode, 1, bestY, bestD).y)

\* the jump test of chooseNextY
exceedsJump_atLeast(bestD, maxJump) == RLe(maxJump, bestD)

exceedsJump(bestD, maxJump) == RLt(maxJump, bestD)

\* (the mutation of C23: the prediction is always the previous y)
chooseNextY_fromPrev(runs, yPrev, yPrev2, mode, maxJump) ==
    IF Len(runs) = 0 THEN None
    ELSE LET bestY == runRepresentativeY(runs[1], mode)
             bestD == RAbs(RSub(bestY, yPrev))
             best  == closestRun(runs, yPrev, mode, 1, bestY, bestD)
         IN  IF exceedsJump(best.d, maxJump) THEN None ELSE Some(best.y)

chooseNextYBody(runs, yPrev, yPrev2, mode, maxJump) ==
    IF Len(runs) = 0 THEN None
    ELSE LET yPred == IF ~yPrev2.some THEN yPrev ELSE RAdd(yPrev, RSub(yPrev, yPrev2.v))
             bestY == runRepresentativeY(runs[1], mode)
             bestD == RAbs(RSub(bestY, yPred))
             best  == closestRun(runs, yPred, mode, 1, bestY, bestD)
         IN  IF exceedsJump(best.d, maxJump) THEN None ELSE Some(best.y)

\* Array.prototype.sort with (a, b) => a.x - b.x: ascending x, stable
RECURSIVE insertByX(_, _)
insertByX(sorted, p) ==
    IF sorted = <<>> THEN <<p>>
    ELSE IF RLt(p.x, sorted[Len(sorted)].x)
         THEN Append(insertByX(SubSeq(sorted, 1, Len(sorted) - 1), p), sorted[Len(sorted)])
         ELSE Append(sorted, p)

RECURSIVE sortByX(_)
sortByX(seeds) ==
    IF seeds = <<>> THEN <<>>
    ELSE insertByX(sortByX(SubSeq(seeds, 1, Len(seeds) - 1)), seeds[Len(seeds)])

\* traceDir: the loop's variables on entry
traceLoopInit_keepPrev2(x0, y0) ==
    [pts |-> <<>>, x |-> x0, yPrev |-> y0,
     yPrev2 |-> IF runLog # <<>> /\ runLog[Len(runLog)].pts # <<>>
                THEN Some(runLog[Len(runLog)].pts[1].y) ELSE None,
     done |-> FALSE]

traceLoopInit(x0, y0) ==
    [pts |-> <<>>, x |-> x0, yPrev |-> y0, yPrev2 |-> None, done |-> FALSE]

\* traceDir: one iteration of the while loop
traceLoopStep(a, dir, st) ==
    LET pts == Append(st.pts, [x |-> columnNumber(st.x), y |-> st.yPrev])
        xn  == IF st.x = NaNColumn THEN NaNColumn ELSE st.x + dir
    IN  IF xn # NaNColumn /\ (xn < 0 \/ xn >= a.roi.width)
        THEN [st EXCEPT !.pts = pts, !.done = TRUE]
        ELSE LET runs  == findRunsInColumn(a, xn)
                 yNext == chooseNextY(runs, st.yPrev, st.yPrev2, a.mode, a.maxJump)
             IN  IF ~yNext.some
                 THEN [st EXCEPT !.pts = pts, !.done = TRUE]
                 ELSE [pts |-> pts, x |-> xn, yPrev |-> yNext.v,
                       yPrev2 |-> Some(st.yPrev), done |-> FALSE]

RECURSIVE traceLoop(_, _, _)
traceLoop(a, dir, st) ==
    IF st.done THEN st.pts ELSE traceLoop(a, dir, traceLoopStep(a, dir, st))

traceDirBody(a, x0, y0, dir) == traceLoop(a, dir, traceLoopInit(x0, y0))

Reverse(s) == [i \in 1 .. Len(s) |-> s[Len(s) + 1 - i]]

\* the merge of the two directional traces
mergeTraces_keepOrigin(left, right) == Reverse(left) \o right

mergeTraces(left, right) == Reverse(left) \o Tail(right)

\* the guard on the number of seeds
tooFewSeeds_unchecked(seeds) == FALSE

tooFewSeeds(seeds) == Len(seeds) < 3

\* the origin column of a call that passes the guards
originColumn(a) ==
    IF sortByX(a.seeds)[2].x = NaN THEN NaNColumn
    ELSE clamp(RRound(sortByX(a.seeds)[2].x), 0, a.roi.width - 1)

\* a call's outcome: the returned points, or a TypeError thrown by it
Returned(pts) == [threw |-> FALSE, pts |-> pts]
Threw == [threw |-> TRUE, pts |-> <<>>]

traceCurveWithSeedsBody(a) ==
    IF a.roi.width <= 0 \/ a.roi.height <= 0 THEN Returned(<<>>)
    ELSE IF tooFewSeeds(a.seeds) THEN Returned(<<>>)
    ELSE IF Len(a.seeds) < 2 THEN Threw  \* sMid is undefined
    ELSE LET sMid  == sortByX(a.seeds)[2]
             x0    == originColumn(a)
             runs0 == findRunsInColumn(a, x0)
             y0    == chooseInitialY(runs0, sMid.y, a.mode)
         IN  IF ~y0.some THEN Returned(<<>>)
             ELSE Returned(mergeTraces(traceDir(a, x0, y0.v, -1), traceDir(a, x0, y0.v, 1)))

-----------------------------------------------------------------------------
(* traceCurveWithSeeds on small buffers *)

\* buffer size, and the largest maxJump, of the traced buffers
TraceW == 3
TraceH == 4
MaxJumpBound == 2

\* pixel colors: the curve, a color 44 away from it, and the background
InkColor  == [r |-> 0, g |-> 0, b |-> 0]
NearColor == [r |-> 44, g |-> 0, b |-> 0]
Paper     == [r |-> 255, g |-> 255, b |-> 255]

\* the columns a buffer is made of: empty, a two-row run on top, a
\* near-color pixel in row 2, and two runs (top row and bottom row)
ColumnPatterns == { "empty", "thick", "near", "two" }

patternPixel(pat, y, H) ==
    CASE pat = "empty" -> Paper
      [] pat = "thick" -> IF y \in {0, 1} THEN InkColor ELSE Paper
      [] pat = "near"  -> IF y = 2 THEN NearColor ELSE Paper
      [] pat = "two"   -> IF y \in {0, H - 1} THEN InkColor ELSE Paper

mkRoi(W, H, cols) ==
    [width |-> W, height |-> H,
     data |-> [i \in 1 .. W * H |-> patternPixel(cols[((i - 1) % W) + 1], (i - 1) \div W, H)]]

TraceRois ==
    { mkRoi(TraceW, TraceH, cols) : cols \in [1 .. TraceW -> ColumnPatterns] }
    \cup { [width |-> 0, height |-> TraceH, data |-> <<>>],
           [width |-> TraceW, height |-> 0, data |-> <<>>] }

\* seed clicks: two in column 1 (top and bottom row) and one that rounds
\* to a column right of the buffer
SeedPoints ==
    << Pt(1, 0), Pt(1, TraceH - 1), [x |-> Rat(2 * TraceW - 1, 2), y |-> Num(1)] >>

\* lists of three seed clicks (every choice of three clicks with every
\* choice of the second one; the first and third in one order), and lists
\* of fewer than three
SeedLists ==
    { << SeedPoints[q[1]], SeedPoints[q[2]], SeedPoints[q[3]] >> :
        q \in { t \in [1 .. 3 -> 1 .. 3] : t[1] <= t[3] } }
    \cup { <<>>, <<Pt(1, 0)>>, <<Pt(1, 0), Pt(1, TraceH - 1)>> }

\* the predicate built by the host (axisBand 4, tickRadius 6) when the axes
\* are far from the buffer, and when the x axis lies 3 rows below its last row
farAxes(H) ==
    [xAxisLine |-> [p |-> Pt(0, -100), v |-> Pt(1, 0)],
     yAxisLine |-> [p |-> Pt(-100, 0), v |-> Pt(0, 1)],
     tickPointsX |-> <<>>, tickPointsY |-> <<>>,
     axisBand |-> Num(4), tickRadius |-> Num(6)]

TraceBlacklists ==
    { buildBlacklist(farAxes(TraceH)),
      buildBlacklist([farAxes(TraceH) EXCEPT !.xAxisLine.p = Pt(0, TraceH + 2)]) }

\* the arguments the host passes: the picked color is the average seed color
\* (a buffer without pixels has none: the call is then made with the ink color)
withColor(a, seeds) ==
    [roi |-> a.roi, seeds |-> seeds,
     pickedColor |-> IF a.roi.width * a.roi.height = 0 THEN InkColor
                     ELSE computeAverageColor(a.roi, seeds),
     threshold |-> a.threshold, mode |-> a.mode, maxJump |-> a.maxJump,
     isBlacklistedPixel |-> a.isBlacklistedPixel]

TraceInit ==
    /\ ClampIdle /\ CalIdle /\ RunIdle /\ DetIdle /\ HostIdle /\ CallIdle
    /\ \E a \in [roi : TraceRois, seeds : SeedLists, threshold : {45},
                 mode : {"centerline", "median"},
                 maxJump : { Num(j) : j \in 0 .. MaxJumpBound },
                 isBlacklistedPixel : TraceBlacklists] :
          trArgs = withColor(a, a.seeds)
    /\ trOut = None

TraceApply ==
    /\ trOut = None
    /\ trOut' = Some(traceCurveWithSeeds(trArgs))
    /\ UNCHANGED <<trArgs, clampVars, calVars, runVars, detVars, hostVars, callVars>>

TraceNext == TraceApply

SpecTrace == TraceInit /\ [][TraceNext]_vars

\* the arguments of the call made by TraceApply, and its origin column
TraceCall == trArgs
TraceTraced == trOut.some /\ ~trOut.v.threw /\ trOut.v.pts # <<>>
TraceOrigin == originColumn(TraceCall)

\* the part of the returned polyline traced in direction dir, origin first
directional(pts, x0, dir) ==
    LET i0 == CHOOSE i \in 1 .. Len(pts) : pts[i].x = Num(x0)
    IN  IF dir = 1 THEN SubSeq(pts, i0, Len(pts)) ELSE Reverse(SubSeq(pts, 1, i0))

\* the y predicted for the column after the k-th point of a directional trace
predictedY(d, k) ==
    IF k = 1 THEN d[k].y ELSE RAdd(d[k].y, RSub(d[k].y, d[k - 1].y))

\* the distances from yPred of the runs of column x
runDistances(a, x, yPred) ==
    LET runs == findRunsInColumn(a, x)
    IN  { RAbs(RSub(runRepresentativeY(runs[i], a.mode), yPred)) : i \in 1 .. Len(runs) }

\* C6: in either direction every emitted point is within maxJump of the
\* predicted y and no run of its column is closer to it; where the trace
\* ends before the buffer edge, every run of the next column is farther
\* than maxJump from the predicted y (so a run at exactly maxJump is taken,
\* and past a jump-limit failure nothing is emitted).
TraceJumpLimit ==
    TraceTraced =>
        LET a  == TraceCall
            x0 == originColumn(a)
        IN  \A dir \in {-1, 1} :
                LET d  == directional(trOut.v.pts, x0, dir)
                    xn == x0 + dir * Len(d)
                IN  /\ \A k \in 1 .. Len(d) - 1 :
                        LET yPred == predictedY(d, k)
                            dist  == RAbs(RSub(d[k + 1].y, yPred))
                        IN  /\ RLe(dist, a.maxJump)
                            /\ \A o \in runDistances(a, x0 + dir * k, yPred) : RLe(dist, o)
                    /\ (xn >= 0 /\ xn < a.roi.width) =>
                        \A o \in runDistances(a, xn, predictedY(d, Len(d))) : RLt(a.maxJump, o)

\* one direction has stopped at a column whose runs are all too far, and a
\* point at exactly maxJump > 0 from the prediction has been emitted
TraceJumpWitness ==
    /\ TraceTraced
    /\ RLt(Num(0), trArgs.maxJump)
    /\ \E dir \in {-1, 1} :
        LET d  == directional(trOut.v.pts, TraceOrigin, dir)
            xn == TraceOrigin + dir * Len(d)
        IN  /\ xn >= 0 /\ xn < trArgs.roi.width
            /\ runDistances(TraceCall, xn, predictedY(d, Len(d))) # {}
    /\ \E dir \in {-1, 1} :
        LET d == directional(trOut.v.pts, TraceOrigin, dir)
        IN  \E k \in 1 .. Len(d) - 1 :
                RAbs(RSub(d[k + 1].y, predictedY(d, k))) = trArgs.maxJump

\* C7: a non-empty result has consecutive points in adjacent columns with
\* x increasing by 1, holds the origin column exactly once, and is the
\* reversed leftward trace followed by the rightward trace without its
\* first point.
TraceMonotonic ==
    TraceTraced =>
        LET pts == trOut.v.pts
            a   == TraceCall
            x0  == originColumn(a)
            y0  == chooseInitialY(findRunsInColumn(a, x0), sortByX(a.seeds)[2].y, a.mode).v
            left  == traceDir(a, x0, y0, -1)
            right == traceDir(a, x0, y0, 1)
        IN  /\ \A i \in 1 .. Len(pts) - 1 : pts[i + 1].x = RAdd(pts[i].x, Num(1))
            /\ Cardinality({ i \in 1 .. Len(pts) : pts[i].x = Num(x0) }) = 1
            /\ pts = Reverse(left) \o Tail(right)

\* a trace that extends to both sides of the origin column
TraceBothSides ==
    /\ TraceTraced
    /\ Len(directional(trOut.v.pts, TraceOrigin, -1)) > 1
    /\ Len(directional(trOut.v.pts, TraceOrigin, 1)) > 1

\* the permutations of a list of three
Permutations3(s) ==
    { <<s[p[1]], s[p[2]], s[p[3]]>> :
        p \in { q \in [1 .. 3 -> 1 .. 3] : { q[1], q[2], q[3] } = 1 .. 3 } }

\* C9: for three seeds, every order of the same seeds gives the same picked
\* color and the same polyline.
TraceSeedOrderIndependent ==
    (trOut.some /\ Len(trArgs.seeds) = 3 /\ trArgs.roi.width * trArgs.roi.height > 0) =>
        \A seeds \in Permutations3(trArgs.seeds) :
            /\ computeAverageColor(trArgs.roi, seeds) = trArgs.pickedColor
            /\ traceCurveWithSeeds(withColor(trArgs, seeds)) = trOut.v

\* C10: the call never throws; it returns no points exactly when fewer than
\* three seeds are given, the buffer has no columns or no rows, or no row of
\* the origin column is a matching, non-blacklisted pixel; otherwise the
\* result holds a point of the origin column.
TraceEmptyResult ==
    trOut.some =>
        LET a  == TraceCall
            x0 == originColumn(a)
            nothing ==
                \/ Len(a.seeds) < 3
                \/ a.roi.width = 0 \/ a.roi.height = 0
                \/ \A y \in 0 .. a.roi.height - 1 : ~rowMatches(a, x0, y)
        IN  /\ ~trOut.v.threw
            /\ nothing <=> trOut.v.pts = <<>>
            /\ ~nothing => \E i \in 1 .. Len(trOut.v.pts) : trOut.v.pts[i].x = Num(x0)

\* three seeds on a buffer whose origin column has no matching pixel
TraceEmptyWitness ==
    /\ trOut.some /\ trOut.v = Returned(<<>>)
    /\ Len(trArgs.seeds) = 3
    /\ trArgs.roi.width > 0 /\ trArgs.roi.height > 0

\* fewer than three seeds, and a buffer without pixels
TraceFewSeeds == trOut.some /\ Len(trArgs.seeds) < 3 /\ trArgs.roi.width > 0
TraceNoBuffer == trOut.some /\ Len(trArgs.seeds) = 3 /\ trArgs.roi.width = 0

-----------------------------------------------------------------------------
(* successive calls of traceCurveWithSeeds, one loop iteration at a time *)

\* number of calls made in a row
MaxCalls == 3

\* two buffers (column 1 has two runs), traced from the top and from the
\* bottom run of column 1, in both modes
RunRois ==
    { mkRoi(TraceW, TraceH,
            [i \in 1 .. TraceW |-> IF i = 2 THEN "two" ELSE IF i % 2 = 1 THEN other ELSE "near"]) :
        other \in { "thick", "two" } }

RunInputs ==
    { withColor(a, a.seeds) :
        a \in [roi : RunRois,
               seeds : { <<SeedPoints[1], SeedPoints[1], SeedPoints[1]>>,
                         <<SeedPoints[2], SeedPoints[2], SeedPoints[2]>>,
                         <<SeedPoints[1]>> },
               threshold : {45}, mode : {"centerline", "median"},
               maxJump : { Num(1) },
               isBlacklistedPixel : { buildBlacklist(farAxes(TraceH)) }] }

RunInit ==
    /\ ClampIdle /\ CalIdle /\ TraceIdle /\ DetIdle /\ HostIdle /\ CallIdle
    /\ runLog = <<>>
    /\ runFrame = None

\* the call, up to the first iteration of traceDir(1): the early returns, or
\* the locals x0, y0 and those of the loop
RunCall(a) ==
    /\ runFrame = None
    /\ Len(runLog) < MaxCalls
    /\ IF a.roi.width <= 0 \/ a.roi.height <= 0 \/ tooFewSeeds(a.seeds)
       THEN /\ runLog' = Append(runLog, [args |-> a, pts |-> <<>>])
            /\ UNCHANGED runFrame
       ELSE LET x0 == originColumn(a)
                y0 == chooseInitialY(findRunsInColumn(a, x0), sortByX(a.seeds)[2].y, a.mode)
            IN  IF ~y0.some
                THEN /\ runLog' = Append(runLog, [args |-> a, pts |-> <<>>])
                     /\ UNCHANGED runFrame
                ELSE /\ runFrame' = Some([args |-> a, x0 |-> x0, y0 |-> y0.v, dir |-> 1,
                                          right |-> <<>>, loop |-> traceLoopInit(x0, y0.v)])
                     /\ UNCHANGED runLog
    /\ UNCHANGED <<clampVars, calVars, trVars, detVars, hostVars, callVars>>

\* one iteration of the while loop of traceDir
RunIterate ==
    /\ runFrame.some
    /\ ~runFrame.v.loop.done
    /\ runFrame' = Some([runFrame.v EXCEPT
                            !.loop = traceLoopStep(runFrame.v.args, runFrame.v.dir, runFrame.v.loop)])
    /\ UNCHANGED <<runLog, clampVars, calVars, trVars, detVars, hostVars, callVars>>

\* traceDir(1) returns and traceDir(-1) is entered
RunTurn ==
    /\ runFrame.some
    /\ runFrame.v.loop.done /\ runFrame.v.dir = 1
    /\ runFrame' = Some([runFrame.v EXCEPT
                            !.right = runFrame.v.loop.pts, !.dir = -1,
                            !.loop = traceLoopInit(runFrame.v.x0, runFrame.v.y0)])
    /\ UNCHANGED <<runLog, clampVars, calVars, trVars, detVars, hostVars, callVars>>

\* traceDir(-1) returns, the traces are merged and the call returns
RunReturn ==
    /\ runFrame.some
    /\ runFrame.v.loop.done /\ runFrame.v.dir = -1
    /\ runLog' = Append(runLog, [args |-> runFrame.v.args,
                                 pts |-> mergeTraces(runFrame.v.loop.pts, runFrame.v.right)])
    /\ runFrame' = None
    /\ UNCHANGED <<clampVars, calVars, trVars, detVars, hostVars, callVars>>

RunNext ==
    \/ \E a \in RunInputs : RunCall(a)
    \/ RunIterate
    \/ RunTurn
    \/ RunReturn

SpecRun == RunInit /\ [][RunNext]_vars

RunMatchesFunction ==
    \A i \in 1 .. Len(runLog) : runLog[i].pts = traceCurveWithSeeds(runLog[i].args).pts

-----------------------------------------------------------------------------
(* findRunsInColumn on the columns of small buffers *)

\* buffers of two columns and ColumnH rows: every column of curve, near and
\* background pixels, next to a column of curve pixels
ColumnH == 5

ColumnColors == { InkColor, NearColor, Paper }

columnRoi(col, x) ==
    [width |-> 2, height |-> ColumnH,
     data |-> [i \in 1 .. 2 * ColumnH |->
                  IF (i - 1) % 2 = x THEN col[(i - 1) \div 2 + 1] ELSE InkColor]]

\* the predicate of the host with the axes far away, with the x axis one row
\* below the buffer (band 4: the rows less than 4 from it are blacklisted), and with
\* the x axis in row 2 (band 1: row 2 alone is)
ColumnBlacklists ==
    { buildBlacklist(farAxes(ColumnH)),
      buildBlacklist([farAxes(ColumnH) EXCEPT !.xAxisLine.p = Pt(0, ColumnH + 1)]),
      buildBlacklist([farAxes(ColumnH) EXCEPT !.xAxisLine.p = Pt(0, 2),
                                              !.axisBand = Num(1)]) }

ColumnInit ==
    /\ RestIdle
    /\ \E col \in [1 .. ColumnH -> ColumnColors] : \E x \in { 0, 1 } :
       \E th \in { 44, 45 } : \E bl \in ColumnBlacklists :
          callArgs = Some([roi |-> columnRoi(col, x), x |-> x, pickedColor |-> InkColor,
                           threshold |-> th, isBlacklistedPixel |-> bl])
    /\ callOut = None

ColumnApply ==
    /\ callOut = None
    /\ callOut' = Some(findRunsInColumn(callArgs.v, callArgs.v.x))
    /\ UNCHANGED <<callArgs, restVars>>

ColumnNext == ColumnApply

SpecColumn == ColumnInit /\ [][ColumnNext]_vars

\* row y of the scanned column is not blacklisted and its color is at a
\* distance below the threshold from the picked color
columnMatch(y) ==
    LET a  == callArgs.v
        px == a.roi.data[y * a.roi.width + a.x + 1]
    IN  /\ (px.r - a.pickedColor.r) * (px.r - a.pickedColor.r)
           + (px.g - a.pickedColor.g) * (px.g - a.pickedColor.g)
           + (px.b - a.pickedColor.b) * (px.b - a.pickedColor.b)
           < a.threshold * a.threshold
        /\ ~callBlacklist(a.isBlacklistedPixel, Pt(a.x, y))

\* C21: the runs returned are within the column, in top-to-bottom order with
\* at least one row between two of them; a row matches exactly when it lies
\* in a run, and then in one run only (so the runs are the maximal intervals
\* of matching rows, and a run open at the last row ends at height - 1).
ColumnRunsExact ==
    callOut.some =>
        LET runs == callOut.v
            H    == callArgs.v.roi.height
        IN  /\ \A i \in 1 .. Len(runs) :
                  0 <= runs[i].ymin /\ runs[i].ymin <= runs[i].ymax /\ runs[i].ymax <= H - 1
            /\ \A i \in 1 .. Len(runs) - 1 : runs[i].ymax + 1 < runs[i + 1].ymin
            /\ \A y \in 0 .. H - 1 :
                  columnMatch(y) <=>
                      Cardinality({ i \in 1 .. Len(runs) :
                                       runs[i].ymin <= y /\ y <= runs[i].ymax }) = 1
            /\ \A y \in 0 .. H - 1 :
                  Cardinality({ i \in 1 .. Len(runs) :
                                   runs[i].ymin <= y /\ y <= runs[i].ymax }) <= 1

\* two runs, the second open at the last row, and between them a row of the
\* curve color that the blacklist excludes
ColumnTwoRuns ==
    /\ callOut.some
    /\ Len(callOut.v) = 2
    /\ callOut.v[2].ymax = ColumnH - 1
    /\ \E y \in 0 .. ColumnH - 1 :
          /\ callArgs.v.roi.data[y * 2 + callArgs.v.x + 1] = InkColor
          /\ ~columnMatch(y)

\* row y of column x holds a pixel of the buffer that is nearer than the
\* threshold to the picked color and that the blacklist predicate lets pass
onCurve(a, x, y) ==
    /\ y \in 0 .. a.roi.height - 1
    /\ \A px \in { a.roi.data[y * a.roi.width + x + 1] } :
          (px.r - a.pickedColor.r) * (px.r - a.pickedColor.r)
          + (px.g - a.pickedColor.g) * (px.g - a.pickedColor.g)
          + (px.b - a.pickedColor.b) * (px.b - a.pickedColor.b)
          < a.threshold * a.threshold
    /\ ~callBlacklist(a.isBlacklistedPixel, Pt(x, y))

\* the rows floor(y) and ceil(y)
rowsAround(y) ==
    IF Num(RFloor(y)) = y THEN { RFloor(y) } ELSE { RFloor(y), RFloor(y) + 1 }

\* C24: every returned point has an integer x in 0 .. W - 1, and the rows
\* floor(y) and ceil(y) of that column are rows of the buffer that match the
\* picked color within the threshold and are not blacklisted.
TraceOnCurve ==
    TraceTraced =>
        \A k \in 1 .. Len(trOut.v.pts) :
            \E x \in 0 .. TraceCall.roi.width - 1 :
                /\ trOut.v.pts[k].x = Num(x)
                /\ \A y \in rowsAround(trOut.v.pts[k].y) : onCurve(TraceCall, x, y)

\* a returned point lies between two rows, and another in a column where the
\* predicate rejects a row of the picked color
TraceBetweenRows ==
    /\ TraceTraced
    /\ \E k \in 1 .. Len(trOut.v.pts) : Cardinality(rowsAround(trOut.v.pts[k].y)) = 2
    /\ TraceCall.pickedColor = InkColor
    /\ \E k \in 1 .. Len(trOut.v.pts) : \E y \in 0 .. TraceCall.roi.height - 1 :
          \E x \in 0 .. TraceCall.roi.width - 1 :
             /\ trOut.v.pts[k].x = Num(x)
             /\ callBlacklist(TraceCall.isBlacklistedPixel, Pt(x, y))
             /\ TraceCall.roi.data[y * TraceCall.roi.width + x + 1] = InkColor

-----------------------------------------------------------------------------
(* traceCurveWithSeeds: the origin of the trace *)

\* seed clicks: in column 1 on the top and the bottom row, right of the
\* buffer and left of it halfway between rows 1 and 2, and halfway between
\* columns 0 and 1
OriginSeeds ==
    << Pt(1, 0), Pt(1, TraceH - 1), [x |-> Rat(2 * TraceW - 1, 2), y |-> Rat(3, 2)],
       [x |-> Rat(-3, 2), y |-> Rat(3, 2)], [x |-> Rat(1, 2), y |-> Num(1)] >>

\* the calls: every buffer of the column patterns, three of the clicks in any
\* order (the first and third in one order), the ink color picked, both
\* modes, maxJump 0
OriginInit ==
    /\ RestIdle
    /\ \E cols \in [1 .. TraceW -> ColumnPatterns] :
       \E q \in { t \in [1 .. 3 -> 1 .. Len(OriginSeeds)] : t[1] <= t[3] } :
       \E mode \in { "centerline", "median" } :
          callArgs = Some([roi |-> mkRoi(TraceW, TraceH, cols),
                           seeds |-> << OriginSeeds[q[1]], OriginSeeds[q[2]], OriginSeeds[q[3]] >>,
                           pickedColor |-> InkColor,
                           threshold |-> 45, mode |-> mode, maxJump |-> Num(0),
                           isBlacklistedPixel |-> buildBlacklist(farAxes(TraceH))])
    /\ callOut = None

OriginApply ==
    /\ callOut = None
    /\ callOut' = Some(traceCurveWithSeeds(callArgs.v))
    /\ UNCHANGED <<callArgs, restVars>>

OriginNext == OriginApply

SpecOrigin == OriginInit /\ [][OriginNext]_vars

\* the seed that is second when the seeds are put in order of x, seeds of
\* equal x in the order given
middleSeed(seeds) ==
    seeds[CHOOSE i \in 1 .. 3 :
              Cardinality({ j \in 1 .. 3 : \/ RLt(seeds[j].x, seeds[i].x)
                                           \/ seeds[j].x = seeds[i].x /\ j <= i }) = 2]

\* v rounded to the nearest integer (halves upwards) and brought into 0 .. W - 1
roundedColumn(v, W) ==
    LET n == CHOOSE k \in -(2 * TraceW) .. 2 * TraceW :
                 RLe(Rat(2 * k - 1, 2), v) /\ RLt(v, Rat(2 * k + 1, 2))
    IN  IF n < 0 THEN 0 ELSE IF n > W - 1 THEN W - 1 ELSE n

\* the representative Y of a run: its midpoint, or the floor of it
representative(run, mode) ==
    IF mode = "median" THEN Num((run.ymin + run.ymax) \div 2)
    ELSE Rat(run.ymin + run.ymax, 2)

\* C22: with three seeds on a buffer with pixels, the result is empty when
\* the column of the middle seed (rounded, clamped) has no run; otherwise it
\* holds one point of that column, and its y is the representative Y of the
\* first run, from the top, that no run of the column beats in distance to
\* the seed's y - however far that is.
OriginNearestRun ==
    callOut.some =>
        LET a    == callArgs.v
            sMid == middleSeed(a.seeds)
            x0   == roundedColumn(sMid.x, a.roi.width)
            runs == findRunsInColumn(a, x0)
            dist(i) == RAbs(RSub(representative(runs[i], a.mode), sMid.y))
            pts  == callOut.v.pts
        IN  /\ ~callOut.v.threw
            /\ runs = <<>> => pts = <<>>
            /\ runs # <<>> =>
                  LET best == CHOOSE i \in 1 .. Len(runs) :
                                  /\ \A j \in 1 .. Len(runs) : RLe(dist(i), dist(j))
                                  /\ \A j \in 1 .. i - 1 : RLt(dist(i), dist(j))
                  IN  /\ Cardinality({ k \in 1 .. Len(pts) : pts[k].x = Num(x0) }) = 1
                      /\ \A k \in 1 .. Len(pts) :
                            pts[k].x = Num(x0) =>
                                pts[k].y = representative(runs[best], a.mode)

\* the seed lies halfway between two runs of its column and the upper one is
\* taken, more than maxJump away
OriginTie ==
    /\ callOut.some
    /\ callOut.v.pts # <<>>
    /\ LET a    == callArgs.v
           sMid == middleSeed(a.seeds)
           runs == findRunsInColumn(a, roundedColumn(sMid.x, a.roi.width))
       IN  /\ Len(runs) = 2
           /\ RAbs(RSub(representative(runs[1], a.mode), sMid.y))
                 = RAbs(RSub(representative(runs[2], a.mode), sMid.y))
           /\ RLt(a.maxJump, RAbs(RSub(representative(runs[1], a.mode), sMid.y)))

-----------------------------------------------------------------------------
(* traceDir, iteration by iteration, on one call *)

StepW == 4
StepH == 5

\* the columns of a buffer, each the set of its curve-colored rows
StepColumns == { {}, {2}, {0, StepH - 1}, {1, 2} }

stepRoi(cols) ==
    [width |-> StepW, height |-> StepH,
     data |-> [i \in 1 .. StepW * StepH |->
                  IF (i - 1) \div StepW \in cols[((i - 1) % StepW) + 1] THEN InkColor ELSE Paper]]

\* the calls: three clicks on one pixel of row 2, in the first, the second or
\* the last column
StepInputs ==
    { [roi |-> stepRoi(cols), seeds |-> << Pt(x, 2), Pt(x, 2), Pt(x, 2) >>,
       pickedColor |-> InkColor, threshold |-> 45, mode |-> mode, maxJump |-> Num(j),
       isBlacklistedPixel |-> buildBlacklist(farAxes(StepH))] :
        cols \in [1 .. StepW -> StepColumns], x \in { 0, 1, StepW - 1 },
        mode \in { "centerline", "median" }, j \in { 1, 2 } }

StepInit == RunInit

\* the one call of a behaviour
StepCall(a) == runLog = <<>> /\ RunCall(a)

StepNext ==
    \/ \E a \in StepInputs : StepCall(a)
    \/ RunIterate
    \/ RunTurn
    \/ RunReturn

SpecStep == StepInit /\ [][StepNext]_vars

\* the representative Y of the first run from the top, of column x, that no
\* run of the column beats in distance to yPred; and that distance
nearestRunY(a, x, yPred) ==
    LET runs == findRunsInColumn(a, x)
        dist(i) == RAbs(RSub(representative(runs[i], a.mode), yPred))
        best == CHOOSE i \in 1 .. Len(runs) :
                    /\ \A j \in 1 .. Len(runs) : RLe(dist(i), dist(j))
                    /\ \A j \in 1 .. i - 1 : RLt(dist(i), dist(j))
    IN  [y |-> representative(runs[best], a.mode), d |-> dist(best)]

\* the prediction for the column after the last of the points pts
predictionAfter(pts) ==
    IF Len(pts) = 1 THEN pts[1].y
    ELSE RAdd(pts[Len(pts)].y, RSub(pts[Len(pts)].y, pts[Len(pts) - 1].y))

\* the points pts of a direction end there: the next column is outside the
\* buffer, or has no run, or its nearest run is more than maxJump away
directionEnds(a, x0, dir, pts) ==
    LET xn == x0 + dir * Len(pts)
    IN  \/ xn < 0 \/ xn >= a.roi.width
        \/ findRunsInColumn(a, xn) = <<>>
        \/ RLt(a.maxJump, nearestRunY(a, xn, predictionAfter(pts)).d)

\* one iteration in a direction: from the points pts to the points next
iterationRule(a, x0, y0, dir, pts, next, stopped, stops) ==
    /\ ~stopped
    /\ Len(next) = Len(pts) + 1
    /\ SubSeq(next, 1, Len(pts)) = pts
    /\ next[Len(next)].x = Num(x0 + dir * Len(pts))
    /\ Len(next) = 1 => next[1].y = y0
    /\ Len(next) > 1 => next[Len(next)].y = nearestRunY(a, x0 + dir * Len(pts), predictionAfter(pts)).y
    /\ stops <=> directionEnds(a, x0, dir, next)

\* C23: in each direction, an iteration adds one point, in the column next
\* to the last one, and leaves the earlier points alone; the point is the
\* origin, or the representative Y of the run nearest (topmost on ties) to
\* the previous y when only the origin precedes it and to
\* yPrev + (yPrev - yPrev2) afterwards; the direction stops exactly at the
\* buffer edge, before a column without runs and before one whose nearest run
\* is more than maxJump away, and a stopped direction takes no further
\* iteration: the only steps left are the start of the other direction from
\* the origin, which keeps the points of the first, and the return.
StepByStep ==
    [][ /\ (runFrame.some /\ runFrame'.some) =>
             \A f \in { runFrame.v } : \A g \in { runFrame'.v } :
                /\ g.args = f.args /\ g.x0 = f.x0 /\ g.y0 = f.y0
                /\ IF g.dir = f.dir
                   THEN /\ g.right = f.right
                        /\ iterationRule(f.args, f.x0, f.y0, f.dir, f.loop.pts, g.loop.pts,
                                         f.loop.done, g.loop.done)
                   ELSE /\ f.loop.done /\ f.dir = 1 /\ g.dir = -1
                        /\ g.right = f.loop.pts
                        /\ g.loop.pts = <<>> /\ ~g.loop.done
        /\ (runFrame.some /\ ~runFrame'.some) =>
             /\ runFrame.v.loop.done /\ runFrame.v.dir = -1
             /\ runLog' = Append(runLog, [args |-> runFrame.v.args,
                                          pts |-> Reverse(runFrame.v.loop.pts)
                                                  \o Tail(runFrame.v.right)])
      ]_vars

\* a direction holds three points or more, the last of them not the one the
\* previous y alone would give, and has stopped before the buffer edge
StepExtrapolated ==
    /\ runFrame.some
    /\ LET f == runFrame.v
           n == Len(f.loop.pts)
       IN  /\ n >= 3
           /\ f.loop.pts[n].y # nearestRunY(f.args, f.x0 + f.dir * (n - 1), f.loop.pts[n - 1].y).y
           /\ f.loop.done
           /\ f.x0 + f.dir * n \in 0 .. f.args.roi.width - 1

-----------------------------------------------------------------------------
(* traceDir, iteration by iteration, on any seed coordinates *)

\* the calls of StepInputs, and the same calls with three clicks whose x is NaN
LoopInputs ==
    StepInputs
    \cup { [a EXCEPT !.seeds = << [x |-> NaN, y |-> Num(2)], [x |-> NaN, y |-> Num(2)],
                                 [x |-> NaN, y |-> Num(2)] >>] : a \in StepInputs }

\* the iterations followed per direction
LoopMaxPoints == StepW + 2

LoopCall(a) == runLog = <<>> /\ RunCall(a)

LoopIterate ==
    /\ runFrame.some
    /\ Len(runFrame.v.loop.pts) < LoopMaxPoints
    /\ RunIterate

LoopNext ==
    \/ \E a \in LoopInputs : LoopCall(a)
    \/ LoopIterate
    \/ RunTurn
    \/ RunReturn

SpecLoop == RunInit /\ [][LoopNext]_vars

\* C25, as claimed: a directional trace never holds more than W points, and
\* neither does a returned polyline.
LoopWithinWidth ==
    /\ runFrame.some => Len(runFrame.v.loop.pts) <= runFrame.v.args.roi.width
    /\ \A i \in 1 .. Len(runLog) : Len(runLog[i].pts) <= runLog[i].args.roi.width

\* the same for the calls whose seeds have numbers for coordinates
LoopWithinWidthFinite ==
    /\ (runFrame.some /\ runFrame.v.x0 # NaNColumn) =>
           Len(runFrame.v.loop.pts) <= runFrame.v.args.roi.width
    /\ \A i \in 1 .. Len(runLog) : Len(runLog[i].pts) <= runLog[i].args.roi.width

-----------------------------------------------------------------------------
(* detect.ts: thresholding, axis location, tick detection *)

\* the Rect {x, y, w, h} of integers
mkRect(x, y, w, h) == [x |-> Num(x), y |-> Num(y), w |-> Num(w), h |-> Num(h)]

\* the pixel of gray value v
grayColor(v) == [r |-> v, g |-> v, b |-> v]

\* the literals 0.299, 0.587 and 0.114
lumR == FRound(Big(299), 1000, 0)
lumG == FRound(Big(587), 1000, 0)
lumB == FRound(Big(114), 1000, 0)

\* (r * 0.299 + g * 0.587 + b * 0.114) | 0, each operation a double
\* operation, left to right
luminance(px) ==
    FTrunc(FAdd(FAdd(FMul(FInt(px.r), lumR), FMul(FInt(px.g), lumG)),
                FMul(FInt(px.b), lumB)))

\* the colors of the buffers below, with their luminance computed once
luminanceTable ==
    { <<c, luminance(c)>> :
        c \in { InkColor, NearColor, Paper }
              \cup { grayColor(v) : v \in { 0, 5, 10, 60, 200, 255 } } }

\* grayAt, on the pixel at idx
grayAtBody(px) ==
    LET known == { e \in luminanceTable : e[1] = px }
    IN  IF known = {} THEN luminance(px) ELSE (CHOOSE e \in known : TRUE)[2]

\* data[j] for a number j: a byte of the buffer, four to a pixel (the
\* buffers are opaque), or undefined
byteAt(img, j) ==
    IF j[2] = 1 /\ j[1] >= 0 /\ j[1] < 4 * img.width * img.height
    THEN LET px == img.data[j[1] \div 4 + 1]
         IN  Some(CASE j[1] % 4 = 0 -> px.r [] j[1] % 4 = 1 -> px.g
                    [] j[1] % 4 = 2 -> px.b [] OTHER -> 255)
    ELSE None

\* grayAt(data, (y * width + x) * 4) for numbers x, y: the three bytes from
\* that index on; with an undefined byte the sum is NaN, and NaN | 0 is 0
grayAtXY(img, x, y) ==
    LET idx == RAdd(RMul(y, Num(img.width)), x)
    IN  IF idx[2] = 1 /\ idx[1] >= 0 /\ idx[1] < img.width * img.height
        THEN grayAt(img.data[idx[1] + 1])
        ELSE LET j == RMul(idx, Num(4))
                 r == byteAt(img, j)
                 g == byteAt(img, RAdd(j, Num(1)))
                 b == byteAt(img, RAdd(j, Num(2)))
             IN  IF r.some /\ g.some /\ b.some
                 THEN grayAt([r |-> r.v, g |-> g.v, b |-> b.v])
                 ELSE 0

\* the for loop "for (v = from; v < from + len; v++)": its iterates in order
loopCount(len) == IF len[1] <= 0 THEN 0 ELSE -((-len[1]) \div len[2])
loopValues(from, len) == [k \in 1 .. loopCount(len) |-> RAdd(from, Num(k - 1))]

\* otsuThresholdFromRect: the histogram of the rect
rectHistogram(img, rect) ==
    LET x0 == RTrunc(rect.x)
        y0 == RTrunc(rect.y)
        x1 == RTrunc(RAdd(rect.x, rect.w))
        y1 == RTrunc(RAdd(rect.y, rect.h))
        cells  == (x0 .. (x1 - 1)) \X (y0 .. (y1 - 1))
        levels == { grayAtXY(img, Num(c[1]), Num(c[2])) : c \in cells }
    IN  [t \in 0 .. 255 |->
            IF t \in levels
            THEN Cardinality({ c \in cells : grayAtXY(img, Num(c[1]), Num(c[2])) = t })
            ELSE 0]

\* total, and the loop "for (t = 0; t < 256; t++) sum += t * hist[t]"
histTotal(hist) == Fold(LAMBDA acc, t : acc + hist[t], 0, 255, 0)

histSum(hist) == Fold(LAMBDA acc, t : acc + t * hist[t], 0, 255, 0)

\* wB * wF * (mB - mF) * (mB - mF) with mB = sumB / wB and
\* mF = (sum - sumB) / wF, each operation rounded as the double operation
\* is, left to right. (mB < mF, and the sign of the difference cancels.)
varBetweenBody(sum, sumB, wB, wF) ==
    LET mB == FDiv(sumB, wB)
        mF == FDiv(sum - sumB, wF)
    IN  The({ FMul(FMul(FRound(BigMul(Big(wB), Big(wF)), 1, 0), d), d) :
              d \in { FDist(mB, mF) } })

\* varBetween > varMax (varMax starts at -1)
varExceeds_orEquals(v, varMax) == ~varMax.some \/ FCmp(v, varMax.v) >= 0

varExceeds(v, varMax) == ~varMax.some \/ FCmp(v, varMax.v) > 0

\* otsuThresholdFromRect: one iteration of the scan over t. (An empty bin
\* leaves sumB, wB and wF as they were, so the iteration computes the
\* varBetween of the one before: st.last keeps it.)
otsuStep(hist, total, sum, st, t) ==
    LET wB == st.wB + hist[t]
        wF == total - wB
    IN  IF st.done THEN st
        ELSE IF wB = 0 THEN st
        ELSE IF wF = 0 THEN [st EXCEPT !.done = TRUE]
        ELSE LET sumB == st.sumB + t * hist[t]
             IN  The({ IF varExceeds(v, st.varMax)
                       THEN [st EXCEPT !.sumB = sumB, !.wB = wB, !.last = Some(v),
                                       !.varMax = Some(v), !.threshold = t]
                       ELSE [st EXCEPT !.sumB = sumB, !.wB = wB, !.last = Some(v)] :
                       v \in { IF hist[t] = 0 /\ st.last.some THEN st.last.v
                               ELSE varBetween(sum, sumB, wB, wF) } })

\* the scan over a histogram with a positive total
otsuScan(hist, total, sum) ==
    Fold(LAMBDA st, t : otsuStep(hist, total, sum, st, t), 0, 255,
         [sumB |-> 0, wB |-> 0, varMax |-> None, threshold |-> 128,
          last |-> None, done |-> FALSE]).threshold

\* "if (total <= 0) return 128", and the scan
otsuOfHistogram(hist, total) ==
    IF total <= 0 THEN 128 ELSE otsuScan(hist, total, histSum(hist))

otsuThresholdFromRectBody(img, rect) ==
    The({ otsuOfHistogram(hist, histTotal(hist)) : hist \in { rectHistogram(img, rect) } })

\* buildInkFn: the threshold and the buffer the predicate closes over
buildInkFnBody(img, rectForThresh) ==
    [th |-> otsuThresholdFromRect(img, rectForThresh), img |-> img]

\* a call of the returned isInk
isInk_atMost(ink, x, y) == grayAtXY(ink.img, x, y) <= ink.th

isInkBody(ink, x, y) == grayAtXY(ink.img, x, y) < ink.th

\* the calls of grayAt and isInk: a pixel with components from GrayParts
\* and an ink predicate with a threshold from GrayThresholds
GrayParts == { 0, 1, 2, 5, 128, 255 }

GrayThresholds == { 0, 1, 128, 255 }

GrayInit ==
    /\ RestIdle
    /\ \E r \in GrayParts : \E g \in GrayParts : \E b \in GrayParts :
       \E th \in GrayThresholds :
          callArgs = Some([px |-> [r |-> r, g |-> g, b |-> b], th |-> th])
    /\ callOut = None

GrayApply ==
    /\ callOut = None
    /\ LET px == callArgs.v.px
           ink == [th |-> callArgs.v.th,
                   img |-> [width |-> 1, height |-> 1, data |-> <<px>>]]
       IN  callOut' = Some([gray |-> grayAt(px), ink |-> isInk(ink, Num(0), Num(0))])
    /\ UNCHANGED <<callArgs, restVars>>

GrayNext == GrayApply

SpecGray == GrayInit /\ [][GrayNext]_vars

\* the integer nearest to 0.299 R + 0.587 G + 0.114 B
nearestGray(px) == (2 * (299 * px.r + 587 * px.g + 114 * px.b) + 1000) \div 2000

\* C18: the gray level of a pixel is 0.299 R + 0.587 G + 0.114 B rounded to
\* the nearest integer, within 0..255, and the pixel is ink exactly when
\* that level is below the threshold.
GrayRounded ==
    callOut.some =>
        /\ callOut.v.gray = nearestGray(callArgs.v.px)
        /\ callOut.v.gray \in 0 .. 255
        /\ callOut.v.ink = (nearestGray(callArgs.v.px) < callArgs.v.th)

\* findXAxisY, findYAxisX: the ink count of row y / column x of the rect
rowInk(ink, r, y) ==
    LET xs == loopValues(r.x, r.w)
    IN  Cardinality({ k \in DOMAIN xs : isInk(ink, xs[k], y) })

colInk(ink, r, x) ==
    LET ys == loopValues(r.y, r.h)
    IN  Cardinality({ k \in DOMAIN ys : isInk(ink, x, ys[k]) })

\* (the mutation of C19: a row with as much ink as the best replaces it)
bestRowStep_orEqual(ink, r, st, y) ==
    LET n == rowInk(ink, r, y)
    IN  IF n >= st.best THEN [best |-> n, at |-> y] ELSE st

\* one iteration of the loop of findXAxisY / findYAxisX
bestRowStep(ink, r, st, y) ==
    LET n == rowInk(ink, r, y)
    IN  IF n > st.best THEN [best |-> n, at |-> y] ELSE st

bestColStep(ink, r, st, x) ==
    LET n == colInk(ink, r, x)
    IN  IF n > st.best THEN [best |-> n, at |-> x] ELSE st

findXAxisYBody(img, roi, ink) ==
    LET r  == clampRect(roi, Num(img.width), Num(img.height))
        ys == loopValues(r.y, r.h)
    IN  Fold(LAMBDA st, k : bestRowStep(ink, r, st, ys[k]), 1, Len(ys),
             [best |-> -1, at |-> r.y]).at

findYAxisXBody(img, roi, ink) ==
    LET r  == clampRect(roi, Num(img.width), Num(img.height))
        xs == loopValues(r.x, r.w)
    IN  Fold(LAMBDA st, k : bestColStep(ink, r, st, xs[k]), 1, Len(xs),
             [best |-> -1, at |-> r.x]).at

\* the calls of findXAxisY and findYAxisX: a buffer of AxisRows rows and
\* AxisCols columns, the dark pixels of each row one of AxisRowInks, an ink
\* predicate that holds on the dark pixels, and an ROI that is larger than
\* the buffer, inside it, between pixels, or empty
AxisRows == 3

AxisCols == 3

AxisRowInks == { {}, { 0 }, { 2 }, { 1, 2 }, { 0, 1, 2 } }

axisBuffer(dark) ==
    [width |-> AxisCols, height |-> AxisRows,
     data |-> [i \in 1 .. AxisCols * AxisRows |->
                 IF (i - 1) % AxisCols \in dark[(i - 1) \div AxisCols]
                 THEN grayColor(0) ELSE grayColor(200)]]

AxisRois ==
    { mkRect(0, 0, AxisCols + 2, AxisRows + 2), mkRect(1, 1, 2, 2), mkRect(-1, 2, 0, 0),
      [x |-> Rat(1, 2), y |-> Num(0), w |-> Num(2), h |-> Rat(3, 2)] }

AxisInit ==
    /\ RestIdle
    /\ \E dark \in [0 .. AxisRows - 1 -> AxisRowInks] :
       \E roi \in AxisRois :
          callArgs = Some([img |-> axisBuffer(dark), roi |-> roi,
                           ink |-> [th |-> 100, img |-> axisBuffer(dark)]])
    /\ callOut = None

AxisApply ==
    /\ callOut = None
    /\ callOut' = Some(
           [axisY |-> findXAxisY(callArgs.v.img, callArgs.v.roi, callArgs.v.ink),
            axisX |-> findYAxisX(callArgs.v.img, callArgs.v.roi, callArgs.v.ink)])
    /\ UNCHANGED <<callArgs, restVars>>

AxisNext == AxisApply

SpecAxis == AxisInit /\ [][AxisNext]_vars

\* the rows and columns of the clamped ROI, and the ink of each
axisClamped ==
    clampRect(callArgs.v.roi, Num(callArgs.v.img.width), Num(callArgs.v.img.height))

axisRowsOf(r) ==
    { y \in { RAdd(r.y, Num(k)) : k \in 0 .. AxisRows + 2 } : RLt(y, RAdd(r.y, r.h)) }

axisColsOf(r) ==
    { x \in { RAdd(r.x, Num(k)) : k \in 0 .. AxisCols + 2 } : RLt(x, RAdd(r.x, r.w)) }

inkInRow(r, y) ==
    Cardinality({ x \in axisColsOf(r) : isInk(callArgs.v.ink, x, y) })

inkInCol(r, x) ==
    Cardinality({ y \in axisRowsOf(r) : isInk(callArgs.v.ink, x, y) })

\* C19: findXAxisY returns a row of the clamped ROI with the most ink, the
\* smallest such row; findYAxisX the smallest column with the most ink; with
\* no ink in the ROI they return its first row and column.
AxisFirstMaximum ==
    callOut.some =>
        \A r \in { axisClamped } :
        \A inkOfRow \in { [y \in axisRowsOf(r) |-> inkInRow(r, y)] } :
        \A inkOfCol \in { [x \in axisColsOf(r) |-> inkInCol(r, x)] } :
            LET axisY == callOut.v.axisY
                axisX == callOut.v.axisX
            IN  /\ axisY \in DOMAIN inkOfRow
                /\ \A y \in DOMAIN inkOfRow :
                      /\ inkOfRow[y] <= inkOfRow[axisY]
                      /\ inkOfRow[y] = inkOfRow[axisY] => RLe(axisY, y)
                /\ axisX \in DOMAIN inkOfCol
                /\ \A x \in DOMAIN inkOfCol :
                      /\ inkOfCol[x] <= inkOfCol[axisX]
                      /\ inkOfCol[x] = inkOfCol[axisX] => RLe(axisX, x)
                /\ (\A y \in DOMAIN inkOfRow : inkOfRow[y] = 0) =>
                      axisY = r.y /\ axisX = r.x

\* two rows below the first tie for the most ink, and the upper one is
\* returned
AxisTie ==
    /\ callOut.some
    /\ \E r \in { axisClamped } :
       \E inkOfRow \in { [y \in axisRowsOf(r) |-> inkInRow(r, y)] } :
          /\ callOut.v.axisY # r.y
          /\ inkOfRow[callOut.v.axisY] > 0
          /\ \E y \in DOMAIN inkOfRow :
                /\ RLt(callOut.v.axisY, y)
                /\ inkOfRow[y] = inkOfRow[callOut.v.axisY]

\* [...values].sort((a, b) => a - b): each value goes to the position given
\* by the number of values before it in the order
sortRank(vs, j) ==
    Cardinality({ k \in 1 .. Len(vs) : RLt(vs[k], vs[j]) \/ (vs[k] = vs[j] /\ k <= j) })

sortNumbers(vs) ==
    [i \in 1 .. Len(vs) |-> vs[CHOOSE j \in 1 .. Len(vs) : sortRank(vs, j) = i]]

\* (the mutation of C13: a gap equal to mergeDist starts a new cluster)
clusterStep_below(v, mergeDist, st, i) ==
    IF RLt(RSub(v[i], v[i - 1]), mergeDist)
    THEN [st EXCEPT !.sum = RAdd(st.sum, v[i]), !.cnt = st.cnt + 1]
    ELSE [out |-> Append(st.out, RDiv(st.sum, Num(st.cnt))), sum |-> v[i], cnt |-> 1]

\* cluster1D: one iteration of the loop, with sum and cnt of the open cluster
clusterStep(v, mergeDist, st, i) ==
    IF RLe(RSub(v[i], v[i - 1]), mergeDist)
    THEN [st EXCEPT !.sum = RAdd(st.sum, v[i]), !.cnt = st.cnt + 1]
    ELSE [out |-> Append(st.out, RDiv(st.sum, Num(st.cnt))), sum |-> v[i], cnt |-> 1]

cluster1D(values, mergeDist) ==
    IF Len(values) = 0 THEN <<>>
    ELSE LET v  == sortNumbers(values)
             st == Fold(LAMBDA acc, i : clusterStep(v, mergeDist, acc, i), 2, Len(v),
                        [out |-> <<>>, sum |-> v[1], cnt |-> 1])
         IN  Append(st.out, RDiv(st.sum, Num(st.cnt)))

\* the calls of cluster1D: up to ClusterMaxLen values in any order, with
\* repeats, and merge distances 0, 2 and 4
ClusterMaxLen == 5

ClusterValues == { 10, 11, 13, 50, 51 }

ClusterInit ==
    /\ RestIdle
    /\ \E n \in 0 .. ClusterMaxLen : \E vs \in [1 .. n -> ClusterValues] :
       \E mergeDist \in { 0, 2, 4 } :
          callArgs = Some([values |-> [i \in 1 .. n |-> Num(vs[i])],
                           mergeDist |-> Num(mergeDist)])
    /\ callOut = None

ClusterApply ==
    /\ callOut = None
    /\ callOut' = Some(cluster1D(callArgs.v.values, callArgs.v.mergeDist))
    /\ UNCHANGED <<callArgs, restVars>>

ClusterNext == ClusterApply

SpecCluster == ClusterInit /\ [][ClusterNext]_vars

\* the values (as a set) at which a cluster starts: the least value, and
\* every value more than mergeDist above the greatest value below it
clusterStarts(values, mergeDist) ==
    LET S == { values[i] : i \in 1 .. Len(values) }
    IN  { v \in S :
            \/ \A u \in S : RLe(v, u)
            \/ \E u \in S :
                  /\ RLt(u, v)
                  /\ \A w \in S : RLt(w, v) => RLe(w, u)
                  /\ RLt(mergeDist, RSub(v, u)) }

\* the positions of the values in the cluster that starts at b
clusterMembers(values, starts, b) ==
    { i \in 1 .. Len(values) :
        /\ RLe(b, values[i])
        /\ \A c \in starts : RLt(b, c) => RLt(values[i], c) }

RECURSIVE sumAt(_, _)
sumAt(values, I) ==
    IF I = {} THEN Num(0)
    ELSE LET i == CHOOSE j \in I : TRUE
         IN  RAdd(values[i], sumAt(values, I \ { i }))

\* C13: the output is strictly ascending, has one entry per cluster of the
\* sorted values (a cluster ends exactly where the gap to the next value
\* exceeds mergeDist), and its k-th entry is the mean of the k-th cluster;
\* an empty input gives an empty output.
ClusterMeans ==
    callOut.some =>
        LET values == callArgs.v.values
            out    == callOut.v
            starts == clusterStarts(values, callArgs.v.mergeDist)
        IN  /\ Len(out) = Cardinality(starts)
            /\ \A k \in 1 .. Len(out) - 1 : RLt(out[k], out[k + 1])
            /\ \A b \in starts :
                   LET k == Cardinality({ c \in starts : RLe(c, b) })
                       I == clusterMembers(values, starts, b)
                   IN  out[k] = RDiv(sumAt(values, I), Num(Cardinality(I)))
            /\ (values = <<>>) => (out = <<>>)

\* [10,11,13,50,51] with mergeDist 4 gives the means 34/3 and 50.5
ClusterExample ==
    /\ callOut.some
    /\ callArgs.v.values = <<Num(10), Num(11), Num(13), Num(50), Num(51)>>
    /\ callArgs.v.mergeDist = Num(4)
    /\ callOut.v = <<Rat(34, 3), Rat(101, 2)>>

minOffset == 3
maxOffset == 14

\* detectXTicks: ink above or below the axis row in column x
tickAlongY(img, r, ink, x, axisY, sign) ==
    \E dy \in minOffset .. maxOffset :
        LET y == RAdd(axisY, Num(sign * dy))
        IN  /\ RLe(r.y, y) /\ RLt(y, RAdd(r.y, r.h))
            /\ RLe(Num(0), y) /\ RLt(y, Num(img.height))
            /\ isInk(ink, x, y)

\* detectYTicks: ink left or right of the axis column in row y
tickAlongX(img, r, ink, y, axisX, sign) ==
    \E dx \in minOffset .. maxOffset :
        LET x == RAdd(axisX, Num(sign * dx))
        IN  /\ RLe(r.x, x) /\ RLt(x, RAdd(r.x, r.w))
            /\ RLe(Num(0), x) /\ RLt(x, Num(img.width))
            /\ isInk(ink, x, y)

isXTickCandidate(img, r, ink, x, axisY) ==
    /\ isInk(ink, x, axisY)
    /\ (tickAlongY(img, r, ink, x, axisY, -1) \/ tickAlongY(img, r, ink, x, axisY, 1))

isYTickCandidate(img, r, ink, y, axisX) ==
    /\ isInk(ink, axisX, y)
    /\ (tickAlongX(img, r, ink, y, axisX, -1) \/ tickAlongX(img, r, ink, y, axisX, 1))

\* merged.map(...)
pointsOnRow(xs, y) == [i \in 1 .. Len(xs) |-> [x |-> xs[i], y |-> y]]

pointsOnCol(x, ys) == [i \in 1 .. Len(ys) |-> [x |-> x, y |-> ys[i]]]

\* detectXTicks, detectYTicks: the array candidatesX / candidatesY after
\* the loop
candidatesXBody(img, roi, axisY, ink) ==
    LET r  == clampRect(roi, Num(img.width), Num(img.height))
        xs == loopValues(r.x, r.w)
    IN  SelectSeq(xs, LAMBDA x : isXTickCandidate(img, r, ink, x, axisY))

candidatesYBody(img, roi, axisX, ink) ==
    LET r  == clampRect(roi, Num(img.width), Num(img.height))
        ys == loopValues(r.y, r.h)
    IN  SelectSeq(ys, LAMBDA y : isYTickCandidate(img, r, ink, y, axisX))

detectXTicksBody(img, roi, axisY, ink) ==
    pointsOnRow(cluster1D(candidatesX(img, roi, axisY, ink), Num(4)), axisY)

detectYTicksBody(img, roi, axisX, ink) ==
    pointsOnCol(axisX, cluster1D(candidatesY(img, roi, axisX, ink), Num(4)))

\* the calls of detectXTicks and detectYTicks: a buffer of two columns and
\* TickRows rows with an axis row, in which column 0 has or lacks ink on
\* the axis and a dark pixel at a distance from TickOffsets above and below
\* it (0: none), and column 1 is one of three fixed columns; the ROI is the
\* buffer, a band of rows around the axis, or column 1 alone. detectYTicks
\* is called on the transposed buffer and ROI.
TickRows == 32

TickOffsets == { 0, 2, 3, 14, 15 }

TickAxisRows == { 2, 16 }

tickColumn(c, axisY, y) ==
    \/ c.axis /\ y = axisY
    \/ c.up # 0 /\ y = axisY - c.up
    \/ c.down # 0 /\ y = axisY + c.down

tickBuffer(c0, c1, axisY) ==
    [width |-> 2, height |-> TickRows,
     data |-> [i \in 1 .. 2 * TickRows |->
                 IF tickColumn(IF (i - 1) % 2 = 0 THEN c0 ELSE c1, axisY, (i - 1) \div 2)
                 THEN grayColor(0) ELSE grayColor(200)]]

transposed(img) ==
    [width |-> img.height, height |-> img.width,
     data |-> [i \in 1 .. img.width * img.height |->
                 img.data[((i - 1) % img.height) * img.width + (i - 1) \div img.height + 1]]]

transposedRect(r) == [x |-> r.y, y |-> r.x, w |-> r.h, h |-> r.w]

tickRoi(kind, axisY) ==
    CASE kind = "buffer" -> mkRect(0, 0, 2, TickRows)
      [] kind = "band"   -> mkRect(0, axisY - 2, 2, 5)
      [] kind = "column" -> mkRect(1, 0, 1, TickRows)

TickInit ==
    /\ RestIdle
    /\ \E c0 \in [axis : BOOLEAN, up : TickOffsets, down : TickOffsets] :
       \E c1 \in { [axis |-> TRUE, up |-> 0, down |-> 0],
                    [axis |-> TRUE, up |-> 5, down |-> 0],
                    [axis |-> FALSE, up |-> 0, down |-> 5] } :
       \E axisY \in TickAxisRows : \E kind \in { "buffer", "band", "column" } :
          LET img == tickBuffer(c0, c1, axisY)
          IN  callArgs = Some([img |-> img, roi |-> tickRoi(kind, axisY),
                               axisY |-> Num(axisY),
                               ink |-> [th |-> 100, img |-> img],
                               inkT |-> [th |-> 100, img |-> transposed(img)]])
    /\ callOut = None

TickApply ==
    /\ callOut = None
    /\ LET a == callArgs.v
       IN  callOut' = Some(
               [candidatesX |-> candidatesX(a.img, a.roi, a.axisY, a.ink),
                candidatesY |-> candidatesY(transposed(a.img), transposedRect(a.roi),
                                            a.axisY, a.inkT),
                tickPointsX |-> detectXTicks(a.img, a.roi, a.axisY, a.ink)])
    /\ UNCHANGED <<callArgs, restVars>>

TickNext == TickApply

SpecTicks == TickInit /\ [][TickNext]_vars

\* the buffer pixel (x, y) is ink; positions outside the buffer are not
inkInBuffer(ink, x, y) ==
    /\ RLe(Num(0), x) /\ RLt(x, Num(ink.img.width))
    /\ RLe(Num(0), y) /\ RLt(y, Num(ink.img.height))
    /\ isInk(ink, x, y)

tickColumnsOf(r) ==
    { x \in { RAdd(r.x, Num(k)) : k \in 0 .. 2 } : RLt(x, RAdd(r.x, r.w)) }

\* C20: a column of the ROI is a tick candidate exactly when it is ink on
\* the axis row and some buffer pixel 3 to 14 rows above or below the axis
\* row in that column is ink; and likewise, transposed, for detectYTicks.
TickCandidates ==
    callOut.some =>
        LET a == callArgs.v
            r == clampRect(a.roi, Num(a.img.width), Num(a.img.height))
            inSeq(q, e) == \E i \in DOMAIN q : q[i] = e
        IN  \A x \in tickColumnsOf(r) :
               /\ inSeq(callOut.v.candidatesX, x)
                     <=> /\ isInk(a.ink, x, a.axisY)
                         /\ \E d \in 3 .. 14 :
                               \/ inkInBuffer(a.ink, x, RSub(a.axisY, Num(d)))
                               \/ inkInBuffer(a.ink, x, RAdd(a.axisY, Num(d)))
               /\ inSeq(callOut.v.candidatesY, x)
                     <=> /\ isInk(a.inkT, a.axisY, x)
                         /\ \E d \in 3 .. 14 :
                               \/ inkInBuffer(a.inkT, RSub(a.axisY, Num(d)), x)
                               \/ inkInBuffer(a.inkT, RAdd(a.axisY, Num(d)), x)

detectAxesAndTicksTwoRoisBody(args) ==
    LET roi == args.roi
        rX  == clampRect(args.axisRoiX, Num(roi.width), Num(roi.height))
        rY  == clampRect(args.axisRoiY, Num(roi.width), Num(roi.height))
        rectForThresh == IF RLe(RMul(rY.w, rY.h), RMul(rX.w, rX.h)) THEN rX ELSE rY
        ink   == buildInkFn(roi, rectForThresh)
        axisY == findXAxisY(roi, rX, ink)
        axisX == findYAxisX(roi, rY, ink)
    IN  [xAxisLine |-> [p |-> [x |-> Num(0), y |-> axisY], v |-> Pt(1, 0)],
         yAxisLine |-> [p |-> [x |-> axisX, y |-> Num(0)], v |-> Pt(0, 1)],
         tickPointsX |-> detectXTicks(roi, rX, axisY, ink),
         tickPointsY |-> detectYTicks(roi, rY, axisX, ink)]

\* the synthetic plot: a SynthSize x SynthSize buffer of one light level with
\* a dark axis row at SynthAxisY bearing ticks at SynthTicksX and a dark axis
\* column at SynthAxisX bearing ticks at SynthTicksY
SynthSize   == 200
SynthAxisY  == 150
SynthAxisX  == 20
SynthTicksX == { 20, 100, 180 }
SynthTicksY == { 20, 90, 150 }

\* ticks are 3 .. TickLenMax pixels long
TickLenMax == 4

\* p = [dark, light, tickLen, down, left, whole]: ticks point down or up and
\* left or right; the axes span the buffer or only the ticks
synthDark(p, x, y) ==
    \/ y = SynthAxisY /\ (p.whole \/ (x >= 20 /\ x <= 180))
    \/ x = SynthAxisX /\ (p.whole \/ (y >= 20 /\ y <= 150))
    \/ /\ x \in SynthTicksX
       /\ IF p.down THEN y > SynthAxisY /\ y <= SynthAxisY + p.tickLen
                    ELSE y < SynthAxisY /\ y >= SynthAxisY - p.tickLen
    \/ /\ y \in SynthTicksY
       /\ IF p.left THEN x < SynthAxisX /\ x >= SynthAxisX - p.tickLen
                    ELSE x > SynthAxisX /\ x <= SynthAxisX + p.tickLen

synthRoi(p) ==
    [width |-> SynthSize, height |-> SynthSize,
     data |-> [i \in 1 .. SynthSize * SynthSize |->
                 IF synthDark(p, (i - 1) % SynthSize, (i - 1) \div SynthSize)
                 THEN grayColor(p.dark) ELSE grayColor(p.light)]]

SynthParams ==
    [dark : { 0, 60 }, light : { 200, 255 }, tickLen : 3 .. TickLenMax,
     down : BOOLEAN, left : BOOLEAN, whole : BOOLEAN]

\* each ROI encloses its axis and the ticks on it
SynthAxisRois ==
    { [axisRoiX |-> mkRect(0, 135, 200, 30), axisRoiY |-> mkRect(5, 0, 30, 200)],
      [axisRoiX |-> mkRect(10, 140, 180, 20), axisRoiY |-> mkRect(10, 10, 20, 150)] }

DetInit ==
    /\ ClampIdle /\ CalIdle /\ TraceIdle /\ RunIdle /\ HostIdle /\ CallIdle
    /\ detArgs \in [synth : SynthParams, rois : SynthAxisRois]
    /\ detOut = None

DetApply ==
    /\ detOut = None
    /\ detOut' = Some(detectAxesAndTicksTwoRois(
                          [roi |-> synthRoi(detArgs.synth),
                           axisRoiX |-> detArgs.rois.axisRoiX,
                           axisRoiY |-> detArgs.rois.axisRoiY]))
    /\ UNCHANGED <<detArgs, clampVars, calVars, trVars, runVars, hostVars, callVars>>

DetNext == DetApply

SpecDetect == DetInit /\ [][DetNext]_vars

\* C1: on the synthetic plot, detection returns the x axis at y = 150, the
\* y axis at x = 20, and three ticks on each axis.
DetEndToEnd ==
    detOut.some =>
        /\ detOut.v.xAxisLine.p.y = Num(SynthAxisY)
        /\ detOut.v.yAxisLine.p.x = Num(SynthAxisX)
        /\ Len(detOut.v.tickPointsX) = 3
        /\ Len(detOut.v.tickPointsY) = 3

\* the coordinates (x, y) at which detectAxesAndTicksTwoRois reads the
\* buffer: the cells of the Otsu histogram, and the calls of isInk
otsuReads(rect) ==
    { <<Num(x), Num(y)>> :
        x \in RTrunc(rect.x) .. RTrunc(RAdd(rect.x, rect.w)) - 1,
        y \in RTrunc(rect.y) .. RTrunc(RAdd(rect.y, rect.h)) - 1 }

rectReads(r) ==
    LET xs == loopValues(r.x, r.w)
        ys == loopValues(r.y, r.h)
    IN  { <<xs[i], ys[k]>> : i \in DOMAIN xs, k \in DOMAIN ys }

\* the scan of one side of the axis reads the offsets that pass the bounds
\* tests, up to the first that is ink
xTickReads(img, r, ink, x, axisY, sign) ==
    LET yAt(dy)   == RAdd(axisY, Num(sign * dy))
        tested(dy) == /\ RLe(r.y, yAt(dy)) /\ RLt(yAt(dy), RAdd(r.y, r.h))
                      /\ RLe(Num(0), yAt(dy)) /\ RLt(yAt(dy), Num(img.height))
    IN  { <<x, yAt(dy)>> :
            dy \in { d \in minOffset .. maxOffset :
                       /\ tested(d)
                       /\ \A e \in minOffset .. d - 1 :
                             ~(tested(e) /\ isInk(ink, x, yAt(e))) } }

yTickReads(img, r, ink, y, axisX, sign) ==
    LET xAt(dx)   == RAdd(axisX, Num(sign * dx))
        tested(dx) == /\ RLe(r.x, xAt(dx)) /\ RLt(xAt(dx), RAdd(r.x, r.w))
                      /\ RLe(Num(0), xAt(dx)) /\ RLt(xAt(dx), Num(img.width))
    IN  { <<xAt(dx), y>> :
            dx \in { d \in minOffset .. maxOffset :
                       /\ tested(d)
                       /\ \A e \in minOffset .. d - 1 :
                             ~(tested(e) /\ isInk(ink, xAt(e), y)) } }

detectXTicksReads(img, r, axisY, ink) ==
    LET xs == loopValues(r.x, r.w)
    IN  UNION { { <<xs[i], axisY>> }
                \cup (IF isInk(ink, xs[i], axisY)
                      THEN xTickReads(img, r, ink, xs[i], axisY, -1)
                           \cup xTickReads(img, r, ink, xs[i], axisY, 1)
                      ELSE {}) : i \in DOMAIN xs }

detectYTicksReads(img, r, axisX, ink) ==
    LET ys == loopValues(r.y, r.h)
    IN  UNION { { <<axisX, ys[k]>> }
                \cup (IF isInk(ink, axisX, ys[k])
                      THEN yTickReads(img, r, ink, ys[k], axisX, -1)
                           \cup yTickReads(img, r, ink, ys[k], axisX, 1)
                      ELSE {}) : k \in DOMAIN ys }

detectReadsBody(args) ==
    LET roi == args.roi
        rX  == clampRect(args.axisRoiX, Num(roi.width), Num(roi.height))
        rY  == clampRect(args.axisRoiY, Num(roi.width), Num(roi.height))
        rectForThresh == IF RLe(RMul(rY.w, rY.h), RMul(rX.w, rX.h)) THEN rX ELSE rY
        ink   == buildInkFn(roi, rectForThresh)
        axisY == findXAxisY(roi, rX, ink)
        axisX == findYAxisX(roi, rY, ink)
    IN  otsuReads(rectForThresh) \cup rectReads(rX) \cup rectReads(rY)
        \cup detectXTicksReads(roi, rX, axisY, ink)
        \cup detectYTicksReads(roi, rY, axisX, ink)

\* the calls of detectAxesAndTicksTwoRois on small buffers with ROIs of any
\* kind: positions inside, outside and between pixels, sizes negative, zero,
\* fractional and larger than the buffer
smallBuffer(w, h) ==
    [width |-> w, height |-> h,
     data |-> [i \in 1 .. w * h |-> IF i % 3 = 2 THEN grayColor(0) ELSE grayColor(200)]]

RoiBuffers == { smallBuffer(1, 1), smallBuffer(3, 2) }

RoiPositions == { Num(-1), Num(0), Rat(1, 2) }

RoiSizes == { Num(-1), Num(0), Rat(3, 2), Num(5) }

RoiRects == [x : RoiPositions, y : RoiPositions, w : RoiSizes, h : RoiSizes]

RoiOthers ==
    { mkRect(0, 0, 5, 5), mkRect(-1, -1, 0, -1),
      [x |-> Rat(1, 2), y |-> Rat(1, 2), w |-> Rat(3, 2), h |-> Rat(3, 2)] }

RoiInit ==
    /\ RestIdle
    /\ \E roi \in RoiBuffers : \E a \in RoiRects : \E b \in RoiOthers :
       \E swap \in BOOLEAN :
          callArgs = Some([roi |-> roi,
                           axisRoiX |-> IF swap THEN b ELSE a,
                           axisRoiY |-> IF swap THEN a ELSE b])
    /\ callOut = None

RoiApply ==
    /\ callOut = None
    /\ callOut' = Some([result |-> detectAxesAndTicksTwoRois(callArgs.v),
                        reads  |-> detectReads(callArgs.v)])
    /\ UNCHANGED <<callArgs, restVars>>

RoiNext == RoiApply

SpecRoi == RoiInit /\ [][RoiNext]_vars

\* C15: whatever the two ROIs, the call returns both axis lines and both
\* tick lists, and every coordinate it reads is a pair of integers inside
\* the buffer.
RoiReadsInside ==
    callOut.some =>
        /\ DOMAIN callOut.v.result
              = { "xAxisLine", "yAxisLine", "tickPointsX", "tickPointsY" }
        /\ \A c \in callOut.v.reads :
              /\ c[1][2] = 1 /\ c[1][1] >= 0 /\ c[1][1] < callArgs.v.roi.width
              /\ c[2][2] = 1 /\ c[2][1] >= 0 /\ c[2][1] < callArgs.v.roi.height

\* the calls of otsuThresholdFromRect and buildInkFn: a one-row rect with
\* counts[i] pixels of gray level OtsuLevels[i], darkest first, in a buffer
\* one (white) pixel wider; and the same rect with every pixel repeated k
\* times
OtsuLevels == <<0, 5, 10>>

OtsuMaxCount == 4

OtsuFactors == { 1, 3, 7 }

otsuTotal(counts) == counts[1] + counts[2] + counts[3]

\* the gray level of pixel x of the rect
otsuLevelAt(counts, x) ==
    IF x < counts[1] THEN OtsuLevels[1]
    ELSE IF x < counts[1] + counts[2] THEN OtsuLevels[2]
    ELSE OtsuLevels[3]

otsuRow(counts, k) ==
    LET total == k * otsuTotal(counts)
    IN  [width |-> total + 1, height |-> 1,
         data |-> [i \in 1 .. total + 1 |->
                     IF i > total THEN grayColor(255)
                     ELSE grayColor(otsuLevelAt(counts, (i - 1) \div k))]]

otsuRect(counts, k) == mkRect(0, 0, k * otsuTotal(counts), 1)

OtsuInit ==
    /\ RestIdle
    /\ \E counts \in [1 .. 3 -> 0 .. OtsuMaxCount] : \E k \in OtsuFactors :
          callArgs = Some([counts |-> counts, k |-> k])
    /\ callOut = None

\* the threshold of the rect, the ink predicate built from it applied to
\* every pixel of the rect, and the threshold of the replicated rect
OtsuApply ==
    /\ callOut = None
    /\ LET counts == callArgs.v.counts
           ink    == buildInkFn(otsuRow(counts, 1), otsuRect(counts, 1))
       IN  callOut' = Some(
               [threshold  |-> ink.th,
                ink        |-> [x \in 0 .. otsuTotal(counts) - 1 |->
                                  isInk(ink, Num(x), Num(0))],
                replicated |-> otsuThresholdFromRect(otsuRow(counts, callArgs.v.k),
                                                     otsuRect(counts, callArgs.v.k))])
    /\ UNCHANGED <<callArgs, restVars>>

OtsuNext == OtsuApply

SpecOtsu == OtsuInit /\ [][OtsuNext]_vars

\* C14: the rect with every bin count multiplied by k has the threshold of
\* the rect itself.
OtsuReplication ==
    callOut.some => callOut.v.replicated = callOut.v.threshold

\* the classes of a candidate t, from the counts: the weight and the sum of
\* the pixels with gray <= t, and of all pixels
weightUpTo(counts, t) ==
    LET I == { i \in 1 .. 3 : OtsuLevels[i] <= t }
    IN  (IF 1 \in I THEN counts[1] ELSE 0) + (IF 2 \in I THEN counts[2] ELSE 0)
        + (IF 3 \in I THEN counts[3] ELSE 0)

sumUpTo(counts, t) ==
    LET I == { i \in 1 .. 3 : OtsuLevels[i] <= t }
    IN  (IF 1 \in I THEN counts[1] * OtsuLevels[1] ELSE 0)
        + (IF 2 \in I THEN counts[2] * OtsuLevels[2] ELSE 0)
        + (IF 3 \in I THEN counts[3] * OtsuLevels[3] ELSE 0)

bothClasses(counts, t) ==
    weightUpTo(counts, t) > 0 /\ weightUpTo(counts, t) < otsuTotal(counts)

\* wB * wF * (mB - mF)^2 of candidate t as an exact fraction
interClass(counts, t) ==
    LET wB   == weightUpTo(counts, t)
        wF   == otsuTotal(counts) - wB
        sumB == sumUpTo(counts, t)
        sumF == sumUpTo(counts, 255) - sumB
        d    == sumB * wF - sumF * wB
    IN  Rat(d * d, wB * wF)

\* C16: the threshold of a non-empty rect is in 0..255 and, where some
\* candidate has both classes non-empty, it is the smallest candidate of
\* maximal inter-class variance among those; an empty rect gives 128.
OtsuMaximal ==
    callOut.some =>
        LET counts == callArgs.v.counts
            th     == callOut.v.threshold
        IN  /\ th \in 0 .. 255
            /\ otsuTotal(counts) = 0 => th = 128
            /\ (\E t \in 0 .. 255 : bothClasses(counts, t)) =>
                  /\ bothClasses(counts, th)
                  /\ \A t \in 0 .. 255 : bothClasses(counts, t) =>
                        /\ RLe(interClass(counts, t), interClass(counts, th))
                        /\ interClass(counts, t) = interClass(counts, th) => th <= t

\* C17: on a rect with exactly two gray levels, the pixels of the darker
\* level are ink and the pixels of the lighter level are not.
OtsuTwoLevels ==
    callOut.some =>
        LET counts == callArgs.v.counts
            levels == { OtsuLevels[i] : i \in { j \in 1 .. 3 : counts[j] > 0 } }
        IN  Cardinality(levels) = 2 =>
              \A x \in 0 .. otsuTotal(counts) - 1 :
                 callOut.v.ink[x] = (\A l \in levels : otsuLevelAt(counts, x) <= l)

-----------------------------------------------------------------------------
(* image.ts *)

\* a File, as its MIME type and the extension of its name
PlotFile == [type |-> "image/png", ext |-> "png"]

UnsupportedMsg == "Only JPG/PNG is supported."

\* loadImageBitmap: the test on the type and on the lower-cased name
toLowerCase(ext) ==
    CASE ext = "PNG" -> "png" [] ext = "JPG" -> "jpg" [] ext = "JPEG" -> "jpeg" [] OTHER -> ext

isSupported(file) ==
    \/ file.type = "image/png"
    \/ file.type = "image/jpeg"
    \/ toLowerCase(file.ext) \in { "png", "jpg", "jpeg" }

\* the picture decoded from PlotFile: BmpW x BmpH, a black y axis in column 2
\* and x axis in row 13, a tick on each (column 12, row 5), and a curve of
\* the color NearColor in row 3, two pixels thick in the even columns
BmpW == 24
BmpH == 16

plotPixel(x, y) ==
    IF \/ x = 2 /\ y >= 1 /\ y <= 14
       \/ y = 13 /\ x >= 2 /\ x <= 22
       \/ x = 12 /\ y >= 10 /\ y <= 12
       \/ y = 5 /\ x >= 3 /\ x <= 5
    THEN InkColor
    ELSE IF x >= 6 /\ x <= 22 /\ (y = 3 \/ (y = 2 /\ x % 2 = 0))
    THEN NearColor
    ELSE Paper

\* cropImageData: drawImage copies the pixels of the bitmap and leaves
\* transparent black outside it
cropImageData(rect) ==
    LET x == IMax(0, RFloor(rect.x))
        y == IMax(0, RFloor(rect.y))
        w == IMax(1, RFloor(rect.w))
        h == IMax(1, RFloor(rect.h))
    IN  [width |-> w, height |-> h,
         data |-> [i \in 1 .. w * h |->
                     LET bx == x + ((i - 1) % w)
                         by == y + ((i - 1) \div w)
                     IN  IF bx < BmpW /\ by < BmpH THEN plotPixel(bx, by)
                         ELSE [r |-> 0, g |-> 0, b |-> 0]]]

-----------------------------------------------------------------------------
(* OriginalImageCanvas.tsx, RoiWorkCanvas.tsx: the clamp of a dragged rect *)

clampRectToImage(r, iw, ih) ==
    LET x == RMax(Num(0), RMin(RSub(iw, Num(1)), r.x))
        y == RMax(Num(0), RMin(RSub(ih, Num(1)), r.y))
        w == RMax(Num(1), RMin(RSub(iw, x), r.w))
        h == RMax(Num(1), RMin(RSub(ih, y), r.h))
    IN  [x |-> x, y |-> y, w |-> w, h |-> h]

-----------------------------------------------------------------------------
(* curve.ts: mapAndSort *)

\* mapped.sort((a, b) => a.X - b.X): stable
RECURSIVE insertByDataX(_, _)
insertByDataX(sorted, p) ==
    IF sorted = <<>> THEN <<p>>
    ELSE IF RLt(p.X, sorted[Len(sorted)].X)
         THEN Append(insertByDataX(SubSeq(sorted, 1, Len(sorted) - 1), p), sorted[Len(sorted)])
         ELSE Append(sorted, p)

RECURSIVE sortByDataX(_)
sortByDataX(pts) ==
    IF pts = <<>> THEN <<>>
    ELSE insertByDataX(sortByDataX(SubSeq(pts, 1, Len(pts) - 1)), pts[Len(pts)])

\* (the mutation of C11: reverseX is ignored)
mapAndSort_noReverse(pointsPx, pixelToData, reverseX) ==
    sortByDataX([i \in 1 .. Len(pointsPx) |-> applyMapper(pixelToData, pointsPx[i])])

mapAndSort(pointsPx, pixelToData, reverseX) ==
    LET mapped == [i \in 1 .. Len(pointsPx) |-> applyMapper(pixelToData, pointsPx[i])]
        sorted == sortByDataX(mapped)
    IN  IF reverseX THEN Reverse(sorted) ELSE sorted

\* the calls of mapAndSort: up to MapMaxLen pixel points in any order, with
\* repeats, under a mapper of X scale 2, -2 or 0
MapMaxLen == 3

MapPoints == { Pt(0, 0), Pt(10, 5), Pt(3, 1) }

scaleMapper(sx) ==
    [pxX1 |-> Pt(0, 0), pxY1 |-> Pt(0, 0), vx |-> Pt(1, 0), vy |-> Pt(0, 1),
     sx |-> Num(sx), sy |-> Num(1), x1 |-> Num(0), y1 |-> Num(0)]

MapInit ==
    /\ RestIdle
    /\ \E n \in 0 .. MapMaxLen : \E pts \in [1 .. n -> MapPoints] :
       \E sx \in { 2, -2, 0 } : \E rev \in BOOLEAN :
          callArgs = Some([pointsPx |-> pts, pixelToData |-> scaleMapper(sx), reverseX |-> rev])
    /\ callOut = None

\* the call: its result, and the array pointsPx as the call leaves it (map
\* makes a new array; sort and reverse work on that one)
MapApply ==
    /\ callOut = None
    /\ callOut' = Some([result |-> mapAndSort(callArgs.v.pointsPx, callArgs.v.pixelToData,
                                              callArgs.v.reverseX),
                        pointsPx |-> callArgs.v.pointsPx])
    /\ UNCHANGED <<callArgs, restVars>>

MapNext == MapApply

SpecMap == MapInit /\ [][MapNext]_vars

\* how often e occurs in a sequence
occurrences(seq, e) == Cardinality({ i \in 1 .. Len(seq) : seq[i] = e })

\* C11: the result has the length of the input and holds the mapped points,
\* each as often as in the input; its X is non-decreasing when reverseX is
\* false and non-increasing when it is true; the input array is unchanged.
MapSorted ==
    callOut.some =>
        LET a      == callArgs.v
            r      == callOut.v.result
            mapped == [i \in 1 .. Len(a.pointsPx) |-> applyMapper(a.pixelToData, a.pointsPx[i])]
        IN  /\ Len(r) = Len(a.pointsPx)
            /\ \A i \in 1 .. Len(r) : occurrences(r, r[i]) = occurrences(mapped, r[i])
            /\ \A i \in 1 .. Len(r) - 1 :
                   IF a.reverseX THEN RLe(r[i + 1].X, r[i].X) ELSE RLe(r[i].X, r[i + 1].X)
            /\ callOut.v.pointsPx = a.pointsPx

\* the pixel points [(0,0),(10,5)] under the mapper that doubles X, with
\* reverseX: the data points come out with X 20, 0
MapExample ==
    /\ callOut.some
    /\ callArgs.v.pointsPx = <<Pt(0, 0), Pt(10, 5)>>
    /\ callArgs.v.pixelToData = scaleMapper(2)
    /\ callArgs.v.reverseX
    /\ callOut.v.result = <<[X |-> Num(20), Y |-> Num(5)], [X |-> Num(0), Y |-> Num(0)]>>

-----------------------------------------------------------------------------
(* App.tsx: the host state machine *)

\* the uploads made in a run
MaxUploads == 2

\* state.roiImageData holds the crop as the rect it was cropped at; its
\* pixels are those of cropImageData
imageDataOf(crop) == cropImageData(crop)

newCalibration(reverseX, x1, x2, y1, y2) ==
    [reverseX |-> reverseX, x1 |-> x1, x2 |-> x2, y1 |-> y1, y2 |-> y2,
     pxX1 |-> None, pxX2 |-> None, pxY1 |-> None, pxY2 |-> None,
     pixelToData |-> None, isBlacklistedPixel |-> None]

newCurve(threshold, mode, maxJump) ==
    [seeds |-> <<>>, threshold |-> threshold, mode |-> mode, maxJump |-> maxJump,
     pickedColor |-> None, points |-> None]

noSeeds(curv) == [curv EXCEPT !.seeds = <<>>, !.pickedColor = None, !.points = None]

newState(image) ==
    [image |-> image, plotRoi |-> None, roiImageData |-> None,
     axisRoiX |-> None, axisRoiY |-> None, autoDetect |-> None,
     calibration |-> newCalibration(FALSE, None, None, None, None),
     curve |-> newCurve(45, "centerline", Num(20))]

calib == state.calibration
curve == state.curve

hasPlotRoi    == state.roiImageData.some
canAutoDetect == state.roiImageData.some /\ state.axisRoiX.some /\ state.axisRoiY.some
hasAutoDetect == state.autoDetect.some
canPickCalib  == hasAutoDetect
canBuildCalibration ==
    /\ calib.pxX1.some /\ calib.pxX2.some /\ calib.pxY1.some /\ calib.pxY2.some
    /\ calib.x1.some /\ calib.x2.some /\ calib.y1.some /\ calib.y2.some
calibrationReady == calib.pixelToData.some
canPickSeeds  == calibrationReady /\ state.roiImageData.some /\ state.autoDetect.some
seedsReady    == Len(curve.seeds) = 3

\* nearestWithin: the loop over pts from index i on
RECURSIVE nearestFrom(_, _, _, _, _)
nearestFrom(p, pts, i, best, bestD) ==
    IF i > Len(pts) THEN [best |-> best, bestD |-> bestD]
    ELSE LET d == dist2(p, pts[i])
         IN  IF ~best.some \/ RLt(d, bestD)
             THEN nearestFrom(p, pts, i + 1, Some(pts[i]), d)
             ELSE nearestFrom(p, pts, i + 1, best, bestD)

\* (the mutation of C28: the nearest point is taken at any distance)
nearestWithin_anyDistance(p, pts, radius) ==
    nearestFrom(p, pts, 1, None, Num(0)).best

nearestWithin(p, pts, radius) ==
    LET n == nearestFrom(p, pts, 1, None, Num(0))
    IN  IF n.best.some /\ RLe(n.bestD, RMul(radius, radius)) THEN n.best ELSE None

\* the text of a number field: Number(v), or undefined when blank or not finite
parseNumber(v) ==
    CASE v = ""   -> None
      [] v = " "  -> None
      [] v = "0"  -> Some(Num(0))
      [] v = "1"  -> Some(Num(1))
      [] v = "10" -> Some(Num(10))
      [] OTHER    -> None

\* what the operator does: the files chosen, the rectangles dragged, the
\* points clicked, the texts typed
HostFiles  == { None, Some(PlotFile) }
PlotDrags  == { mkRect(-1, -1, 30, 30) }
\* (the drags made while the X axis, and while the Y axis, is being selected)
AxisDrags  ==
    [x |-> { mkRect(0, 0, 30, 30), mkRect(0, 6, 30, 30) },
     y |-> { mkRect(0, 0, 10, 30) }]
CalibClicks == { [x |-> Rat(5, 2), y |-> Rat(25, 2)], Pt(9, 8), Pt(22, 0) }
SeedClicks  == { Pt(12, 2), Pt(18, 3) }
TypedValues ==
    [x1 |-> { "0" }, x2 |-> { "10" }, y1 |-> { "0" }, y2 |-> { "1", "" }]
Thresholds == { 45, 10 }
MaxJumps   == { Num(20), Num(0) }

\* the uploads that can be waiting for their bitmap
Uploads ==
    [bitmap : 1 .. MaxUploads, file : { PlotFile },
     seen : { None } \cup { Some([file |-> PlotFile, bitmap |-> b, width |-> BmpW,
                                  height |-> BmpH]) : b \in 1 .. MaxUploads }]

\* the rects the canvases commit for the drags (the two canvases clamp alike)
clampedDrags(drags, w, h) ==
    { r \in { clampRectToImage(raw, Num(w), Num(h)) : raw \in drags } :
        RLe(Num(10), r.w) /\ RLe(Num(10), r.h) }

DetectCalls ==
    { <<crop, rX, rY>> :
        crop \in clampedDrags(PlotDrags, BmpW, BmpH),
        rX \in UNION { clampedDrags(AxisDrags.x, imageDataOf(c).width, imageDataOf(c).height) :
                         c \in clampedDrags(PlotDrags, BmpW, BmpH) },
        rY \in UNION { clampedDrags(AxisDrags.y, imageDataOf(c).width, imageDataOf(c).height) :
                         c \in clampedDrags(PlotDrags, BmpW, BmpH) } }

\* detectAxesAndTicksTwoRois on each buffer and pair of axis ROIs the drags
\* can produce, computed once
detectResults ==
    { [call |-> c,
       result |-> detectAxesAndTicksTwoRois(
                      [roi |-> imageDataOf(c[1]), axisRoiX |-> c[2], axisRoiY |-> c[3]])] :
        c \in DetectCalls }

detectedBody(crop, rX, rY) ==
    (CHOOSE e \in detectResults : e.call = <<crop, rX, rY>>).result


\* the blacklist buildCalibration makes from a detection result
blacklistOf(autoDetect) ==
    buildBlacklist([xAxisLine |-> autoDetect.xAxisLine, yAxisLine |-> autoDetect.yAxisLine,
                    tickPointsX |-> autoDetect.tickPointsX,
                    tickPointsY |-> autoDetect.tickPointsY,
                    axisBand |-> Num(4), tickRadius |-> Num(6)])

TraceCalls ==
    { [roi |-> crop, seeds |-> seeds,
       pickedColor |-> computeAverageColor(imageDataOf(crop), seeds),
       threshold |-> threshold, mode |-> mode, maxJump |-> maxJump,
       isBlacklistedPixel |-> blacklistOf(e.result)] :
        crop \in clampedDrags(PlotDrags, BmpW, BmpH),
        seeds \in [1 .. 3 -> SeedClicks],
        threshold \in Thresholds, mode \in { "centerline", "median" },
        maxJump \in MaxJumps, e \in detectResults }

\* traceCurveWithSeeds on each buffer, seed triple, setting and blacklist the
\* operator can produce, computed once
traceResults ==
    { [call |-> c,
       result |-> traceCurveWithSeeds([c EXCEPT !.roi = imageDataOf(c.roi)])] :
        c \in TraceCalls }

tracedBody(args) == (CHOOSE e \in traceResults : e.call = args).result

\* the application of fn to the arguments a
invoke(fn, a) ==
    CASE fn = "BigCmp" -> BigCmpDigits(a[1], a[2])
      [] fn = "BigDist" -> BigDistDigits(a[1], a[2])
      [] fn = "BigMul" -> BigMulDigits(a[1], a[2])
      [] fn = "pow2" -> pow2Table[a[1] + 1]
      [] fn = "bitLength" -> bitLengthBody(a[1])
      [] fn = "BigDiv" -> BigTrim(BigDivDigits(a[1], a[2]).q)
      [] fn = "FRound" -> FRoundBody(a[1], a[2], a[3])
      [] fn = "FDist" -> FDistBody(a[1], a[2])
      [] fn = "FAdd" -> FAddBody(a[1], a[2])
      [] fn = "FTrunc" -> FTruncBody(a[1])
      [] fn = "FMul" -> FMulBody(a[1], a[2])
      [] fn = "FCmp" -> FCmpBody(a[1], a[2])
      [] fn = "clampRect" -> clampRectBody(a[1], a[2], a[3])
      [] fn = "grayAt" -> grayAtBody(a[1])
      [] fn = "varBetween" -> varBetweenBody(a[1], a[2], a[3], a[4])
      [] fn = "isInk" -> isInkBody(a[1], a[2], a[3])
      [] fn = "otsuThresholdFromRect" -> otsuThresholdFromRectBody(a[1], a[2])
      [] fn = "buildInkFn" -> buildInkFnBody(a[1], a[2])
      [] fn = "findXAxisY" -> findXAxisYBody(a[1], a[2], a[3])
      [] fn = "findYAxisX" -> findYAxisXBody(a[1], a[2], a[3])
      [] fn = "candidatesX" -> candidatesXBody(a[1], a[2], a[3], a[4])
      [] fn = "candidatesY" -> candidatesYBody(a[1], a[2], a[3], a[4])
      [] fn = "detectXTicks" -> detectXTicksBody(a[1], a[2], a[3], a[4])
      [] fn = "detectYTicks" -> detectYTicksBody(a[1], a[2], a[3], a[4])
      [] fn = "detectAxesAndTicksTwoRois" -> detectAxesAndTicksTwoRoisBody(a[1])
      [] fn = "detectReads" -> detectReadsBody(a[1])
      [] fn = "traceCurveWithSeeds" -> traceCurveWithSeedsBody(a[1])
      [] fn = "detected" -> detectedBody(a[1], a[2], a[3])
      [] fn = "findRunsInColumn" -> findRunsInColumnBody(a[1], a[2])
      [] fn = "chooseInitialY" -> chooseInitialYBody(a[1], a[2], a[3])
      [] fn = "chooseNextY" -> chooseNextYBody(a[1], a[2], a[3], a[4], a[5])
      [] fn = "traceDir" -> traceDirBody(a[1], a[2], a[3], a[4])
      [] fn = "traced" -> tracedBody(a[1])



hostInit ==
    /\ LibIdle
    /\ state = newState(None)
    /\ error = None
    /\ axisMode = "x"
    /\ interactionMode = "axis"
    /\ calibStage = "X1"
    /\ uploads = {}
    /\ bitmaps = 0
    /\ closed = {}

\* onUpload up to the await: no file chosen; a file loadImageBitmap rejects
\* (the catch runs before any other event); a file that is being decoded
onUpload(file) ==
    /\ IF ~file.some THEN error' = None /\ UNCHANGED bmpVars
       ELSE IF ~isSupported(file.v) THEN error' = Some(UnsupportedMsg) /\ UNCHANGED bmpVars
       ELSE /\ bitmaps < MaxUploads
            /\ error' = None
            /\ bitmaps' = bitmaps + 1
            /\ uploads' = uploads \cup { [bitmap |-> bitmaps + 1, file |-> file.v,
                                          seen |-> state.image] }
            /\ UNCHANGED closed
    /\ UNCHANGED <<state, uiVars, libVars>>

\* onUpload from the await on: state is the one the call was made in
onUploadLoaded(u) ==
    /\ u \in uploads
    /\ uploads' = uploads \ { u }
    /\ closed' = IF u.seen.some THEN closed \cup { u.seen.v.bitmap } ELSE closed
    /\ axisMode' = "x"
    /\ interactionMode' = "axis"
    /\ calibStage' = "X1"
    /\ state' = newState(Some([file |-> u.file, bitmap |-> u.bitmap,
                               width |-> BmpW, height |-> BmpH]))
    /\ UNCHANGED <<error, bitmaps, libVars>>

onPlotRoiCommit(rect) ==
    /\ state.image.some
    /\ axisMode' = "x"
    /\ interactionMode' = "axis"
    /\ calibStage' = "X1"
    /\ state' = [state EXCEPT
                    !.plotRoi = Some(rect),
                    !.roiImageData = Some(rect),
                    !.axisRoiX = None,
                    !.axisRoiY = None,
                    !.autoDetect = None,
                    !.calibration = newCalibration(calib.reverseX, None, None, None, None),
                    !.curve = newCurve(curve.threshold, curve.mode, curve.maxJump)]
    /\ UNCHANGED <<error, bmpVars, libVars>>

\* OriginalImageCanvas: a drag is committed when the clamped rect is 10 x 10
\* or more
plotRoiDrag(raw) ==
    /\ state.image.some
    /\ LET clamped == clampRectToImage(raw, Num(state.image.v.width),
                                       Num(state.image.v.height))
       IN  /\ RLe(Num(10), clamped.w) /\ RLe(Num(10), clamped.h)
           /\ onPlotRoiCommit(clamped)

onCommitAxisRoi(mode, rect) ==
    /\ state' = [state EXCEPT
                    !.autoDetect = None,
                    !.axisRoiX = IF mode = "x" THEN Some(rect) ELSE state.axisRoiX,
                    !.axisRoiY = IF mode = "y" THEN Some(rect) ELSE state.axisRoiY]
    /\ UNCHANGED <<error, uiVars, bmpVars, libVars>>

\* RoiWorkCanvas: a drag in axis mode
axisRoiDrag(raw) ==
    /\ state.roiImageData.some
    /\ interactionMode = "axis"
    /\ raw \in AxisDrags[axisMode]
    /\ LET roi     == imageDataOf(state.roiImageData.v)
           clamped == clampRectToImage(raw, Num(roi.width), Num(roi.height))
       IN  /\ RLe(Num(10), clamped.w) /\ RLe(Num(10), clamped.h)
           /\ onCommitAxisRoi(axisMode, clamped)

\* the buttons Select X Axis ROI / Select Y Axis ROI
setAxisMode(m) ==
    /\ hasPlotRoi /\ interactionMode = "axis"
    /\ axisMode' = m
    /\ UNCHANGED <<state, error, interactionMode, calibStage, bmpVars, libVars>>

\* the buttons Pick Calibration and Back to Axis ROI
setInteractionMode(m) ==
    /\ m = "calibration" => canPickCalib
    /\ interactionMode' = m
    /\ UNCHANGED <<state, error, axisMode, calibStage, bmpVars, libVars>>

onAutoDetect ==
    /\ canAutoDetect
    /\ error' = None
    /\ calibStage' = "X1"
    /\ interactionMode' = "calibration"
    /\ state' = [state EXCEPT
                    !.autoDetect = Some(detected(state.roiImageData.v, state.axisRoiX.v,
                                                 state.axisRoiY.v)),
                    !.calibration = newCalibration(calib.reverseX, calib.x1, calib.x2,
                                                   calib.y1, calib.y2),
                    !.curve = noSeeds(curve)]
    /\ UNCHANGED <<axisMode, bmpVars, libVars>>

clearCalibrationPicks ==
    /\ hasAutoDetect
    /\ calibStage' = "X1"
    /\ state' = [state EXCEPT
                    !.calibration = newCalibration(calib.reverseX, calib.x1, calib.x2,
                                                   calib.y1, calib.y2),
                    !.curve = noSeeds(curve)]
    /\ UNCHANGED <<error, axisMode, interactionMode, bmpVars, libVars>>

updateNumber(key, v) ==
    /\ state' = [state EXCEPT
                    !.calibration = [calib EXCEPT ![key] = parseNumber(v),
                                                  !.pixelToData = None,
                                                  !.isBlacklistedPixel = None],
                    !.curve.points = None]
    /\ UNCHANGED <<error, uiVars, bmpVars, libVars>>

\* (the mutation of C26: the points are kept when the direction changes)
toggleReverseX_keepPoints(v) ==
    /\ state' = [state EXCEPT !.calibration.reverseX = v]
    /\ UNCHANGED <<error, uiVars, bmpVars, libVars>>

toggleReverseX(v) ==
    /\ state' = [state EXCEPT !.calibration.reverseX = v, !.curve.points = None]
    /\ UNCHANGED <<error, uiVars, bmpVars, libVars>>

buildCalibration ==
    /\ canBuildCalibration
    /\ LET mapper == buildPixelToDataMapper(
                         [pxX1 |-> calib.pxX1.v, pxX2 |-> calib.pxX2.v,
                          pxY1 |-> calib.pxY1.v, pxY2 |-> calib.pxY2.v,
                          x1 |-> calib.x1.v, x2 |-> calib.x2.v,
                          y1 |-> calib.y1.v, y2 |-> calib.y2.v])
           blackFn == IF state.autoDetect.some THEN Some(blacklistOf(state.autoDetect.v))
                      ELSE None
       IN  IF mapper.ok
           THEN /\ error' = None
                /\ state' = [state EXCEPT
                                !.calibration.pixelToData = Some(mapper.fn),
                                !.calibration.isBlacklistedPixel = blackFn,
                                !.curve = noSeeds(curve)]
           ELSE /\ error' = Some(mapper.error)
                /\ UNCHANGED state
    /\ UNCHANGED <<uiVars, bmpVars, libVars>>

\* the trace the host runs, mapped to data points
tracedPoints(curv) ==
    mapAndSort(traced([roi |-> state.roiImageData.v, seeds |-> curv.seeds,
                       pickedColor |-> curv.pickedColor.v, threshold |-> curv.threshold,
                       mode |-> curv.mode, maxJump |-> curv.maxJump,
                       isBlacklistedPixel |-> calib.isBlacklistedPixel.v]).pts,
               calib.pixelToData.v, calib.reverseX)

\* (the mutation of C27: a fourth seed is taken)
clickSeed_noLimit(p) ==
    /\ interactionMode = "curve"
    /\ IF ~state.roiImageData.some \/ ~calib.pixelToData.some \/ ~calib.isBlacklistedPixel.some
       THEN UNCHANGED state
       ELSE LET seeds == Append(curve.seeds, p)
            IN  IF Len(seeds) = 3
                THEN LET curv == [curve EXCEPT
                                     !.seeds = seeds,
                                     !.pickedColor =
                                         Some(computeAverageColor(
                                                  imageDataOf(state.roiImageData.v), seeds))]
                     IN  state' = [state EXCEPT
                                      !.curve = [curv EXCEPT !.points = Some(tracedPoints(curv))]]
                ELSE state' = [state EXCEPT !.curve.seeds = seeds, !.curve.points = None]
    /\ UNCHANGED <<error, uiVars, bmpVars, libVars>>

\* onClickRoiPoint in curve mode
clickSeed(p) ==
    /\ interactionMode = "curve"
    /\ IF ~state.roiImageData.some \/ ~calib.pixelToData.some \/ ~calib.isBlacklistedPixel.some
          \/ Len(curve.seeds) >= 3
       THEN UNCHANGED state
       ELSE LET seeds == Append(curve.seeds, p)
            IN  IF Len(seeds) = 3
                THEN LET curv == [curve EXCEPT
                                     !.seeds = seeds,
                                     !.pickedColor =
                                         Some(computeAverageColor(
                                                  imageDataOf(state.roiImageData.v), seeds))]
                     IN  state' = [state EXCEPT
                                      !.curve = [curv EXCEPT !.points = Some(tracedPoints(curv))]]
                ELSE state' = [state EXCEPT !.curve.seeds = seeds, !.curve.points = None]
    /\ UNCHANGED <<error, uiVars, bmpVars, libVars>>

\* onClickRoiPoint in calibration mode
clickCalibration(p) ==
    /\ interactionMode # "curve"
    /\ LET onX    == calibStage \in { "X1", "X2" }
           picked == IF ~state.autoDetect.some \/ calibStage = "done" THEN None
                     ELSE nearestWithin(p, IF onX THEN state.autoDetect.v.tickPointsX
                                                ELSE state.autoDetect.v.tickPointsY, Num(14))
       IN  IF ~picked.some
           THEN UNCHANGED <<state, calibStage>>
           ELSE /\ state' = [state EXCEPT
                                !.calibration =
                                    [calib EXCEPT
                                       !.pxX1 = IF calibStage = "X1" THEN picked ELSE calib.pxX1,
                                       !.pxX2 = IF calibStage = "X2" THEN picked ELSE calib.pxX2,
                                       !.pxY1 = IF calibStage = "Y1" THEN picked ELSE calib.pxY1,
                                       !.pxY2 = IF calibStage = "Y2" THEN picked ELSE calib.pxY2,
                                       !.pixelToData = None,
                                       !.isBlacklistedPixel = None],
                                !.curve.points = None]
                /\ calibStage' = CASE calibStage = "X1" -> "X2"
                                   [] calibStage = "X2" -> "Y1"
                                   [] calibStage = "Y1" -> "Y2"
                                   [] calibStage = "Y2" -> "done"
    /\ UNCHANGED <<error, axisMode, interactionMode, bmpVars, libVars>>

\* RoiWorkCanvas: a pointer-down in calibration or curve mode is a click
onClickRoiPoint(p) ==
    /\ state.roiImageData.some
    /\ interactionMode \in { "calibration", "curve" }
    /\ (clickSeed(p) \/ clickCalibration(p))

startPickSeeds ==
    /\ canPickSeeds
    /\ interactionMode' = "curve"
    /\ state' = [state EXCEPT !.curve = noSeeds(curve)]
    /\ UNCHANGED <<error, axisMode, calibStage, bmpVars, libVars>>

clearSeeds ==
    /\ Len(curve.seeds) # 0
    /\ state' = [state EXCEPT !.curve = noSeeds(curve)]
    /\ UNCHANGED <<error, uiVars, bmpVars, libVars>>

\* retraceNow(next), with curv the curve settings merged with next
retraceNow(curv) ==
    IF /\ state.roiImageData.some /\ calib.pixelToData.some /\ calib.isBlacklistedPixel.some
       /\ Len(curv.seeds) = 3 /\ curv.pickedColor.some
    THEN [curv EXCEPT !.points = Some(tracedPoints(curv))]
    ELSE curv

\* the Retrace button
retraceClick ==
    /\ seedsReady /\ curve.pickedColor.some
    /\ state' = [state EXCEPT !.curve = retraceNow(curve)]
    /\ UNCHANGED <<error, uiVars, bmpVars, libVars>>

setThreshold(v) ==
    /\ seedsReady
    /\ state' = [state EXCEPT !.curve = retraceNow([curve EXCEPT !.threshold = v])]
    /\ UNCHANGED <<error, uiVars, bmpVars, libVars>>

setMode(m) ==
    /\ seedsReady
    /\ state' = [state EXCEPT !.curve = retraceNow([curve EXCEPT !.mode = m])]
    /\ UNCHANGED <<error, uiVars, bmpVars, libVars>>

setMaxJump(v) ==
    /\ seedsReady
    /\ state' = [state EXCEPT !.curve = retraceNow([curve EXCEPT !.maxJump = v])]
    /\ UNCHANGED <<error, uiVars, bmpVars, libVars>>

\* the handlers of the axis and calibration panels
calibrationNext ==
    \/ \E file \in HostFiles : onUpload(file)
    \/ \E u \in Uploads : onUploadLoaded(u)
    \/ \E raw \in PlotDrags : plotRoiDrag(raw)
    \/ \E raw \in AxisDrags.x \cup AxisDrags.y : axisRoiDrag(raw)
    \/ \E m \in { "x", "y" } : setAxisMode(m)
    \/ \E m \in { "calibration", "axis" } : setInteractionMode(m)
    \/ onAutoDetect
    \/ clearCalibrationPicks
    \/ \E key \in DOMAIN TypedValues : \E v \in TypedValues[key] : updateNumber(key, v)
    \/ toggleReverseX(~calib.reverseX)
    \/ buildCalibration
    \/ \E p \in CalibClicks : onClickRoiPoint(p)

\* the handlers of the curve panel
curveNext ==
    \/ \E p \in SeedClicks : onClickRoiPoint(p)
    \/ startPickSeeds
    \/ clearSeeds
    \/ retraceClick
    \/ \E v \in Thresholds : setThreshold(v)
    \/ \E m \in { "centerline", "median" } : setMode(m)
    \/ \E v \in MaxJumps : setMaxJump(v)

hostNext == calibrationNext \/ curveNext

\* a session at the axis and calibration panels, and a whole session
Spec     == hostInit /\ [][calibrationNext]_vars
SpecHost == hostInit /\ [][hostNext]_vars

\* the host once the first upload has loaded
sessionInit ==
    /\ LibIdle
    /\ state = newState(Some([file |-> PlotFile, bitmap |-> 1, width |-> BmpW, height |-> BmpH]))
    /\ error = None
    /\ axisMode = "x"
    /\ interactionMode = "axis"
    /\ calibStage = "X1"
    /\ uploads = {}
    /\ bitmaps = 1
    /\ closed = {}

\* a click on one of the ticks' places while picking calibration points, and on
\* one of the curve's places while picking seeds
calibrationClick(p) == interactionMode = "calibration" /\ onClickRoiPoint(p)
seedClick(p) == interactionMode = "curve" /\ onClickRoiPoint(p)

\* the handlers of the panels, on the picture uploaded
sessionNext ==
    \/ \E raw \in PlotDrags : plotRoiDrag(raw)
    \/ \E raw \in AxisDrags.x \cup AxisDrags.y : axisRoiDrag(raw)
    \/ \E m \in { "x", "y" } : setAxisMode(m)
    \/ \E m \in { "calibration", "axis" } : setInteractionMode(m)
    \/ onAutoDetect
    \/ clearCalibrationPicks
    \/ \E key \in DOMAIN TypedValues : \E v \in TypedValues[key] : updateNumber(key, v)
    \/ toggleReverseX(~calib.reverseX)
    \/ buildCalibration
    \/ \E p \in CalibClicks : calibrationClick(p)
    \/ \E p \in SeedClicks : seedClick(p)
    \/ startPickSeeds
    \/ clearSeeds
    \/ retraceClick
    \/ \E v \in Thresholds : setThreshold(v)
    \/ \E m \in { "centerline", "median" } : setMode(m)
    \/ \E v \in MaxJumps : setMaxJump(v)

SpecSession == sessionInit /\ [][sessionNext]_vars

\* C26: whenever traced points are present, so are the buffer, the mapper,
\* the blacklist predicate and the picked color, and the points are the trace
\* of the current buffer with the current seeds, picked color, threshold, mode,
\* maxJump and blacklist predicate, mapped by the current mapper and ordered
\* by the current reverseX.
SessionPointsFresh ==
    curve.points.some =>
        /\ state.roiImageData.some
        /\ calib.pixelToData.some
        /\ calib.isBlacklistedPixel.some
        /\ curve.pickedColor.some
        /\ curve.points.v = tracedPoints(curve)

\* points of a retrace: several of them, in descending X, under a threshold
\* and a mode other than the initial ones
SessionRetraced ==
    /\ curve.points.some
    /\ Len(curve.points.v) >= 2
    /\ calib.reverseX
    /\ curve.threshold = 10 /\ curve.mode = "median"

\* C27: there are never more than 3 seeds, and traced points are present
\* only with exactly 3 seeds, a picked color, a mapper and a blacklist
\* predicate; a step that lengthens the seed list adds one seed to it, in curve
\* mode, with a buffer, a mapper and a blacklist predicate in state; and a
\* click in curve mode on 3 seeds leaves the state as it is.
SessionSeeds ==
    /\ [](/\ Len(curve.seeds) <= 3
          /\ curve.points.some =>
                /\ Len(curve.seeds) = 3
                /\ curve.pickedColor.some
                /\ calib.pixelToData.some
                /\ calib.isBlacklistedPixel.some)
    /\ [][/\ Len(state'.curve.seeds) > Len(curve.seeds) =>
                /\ \E p \in SeedClicks : state'.curve.seeds = Append(curve.seeds, p)
                /\ interactionMode = "curve"
                /\ state.roiImageData.some
                /\ calib.pixelToData.some
                /\ calib.isBlacklistedPixel.some
          /\ ((\E p \in SeedClicks : seedClick(p)) /\ Len(curve.seeds) = 3) =>
                UNCHANGED <<state, error, uiVars>>
         ]_vars

\* three seeds and their points while seeds are being picked
SessionThreeSeeds ==
    /\ interactionMode = "curve"
    /\ Len(curve.seeds) = 3
    /\ curve.points.some
    /\ state.roiImageData.some

\* the calibration field a stage fills, and the stage after it
stageField(stage) ==
    CASE stage = "X1" -> "pxX1" [] stage = "X2" -> "pxX2"
      [] stage = "Y1" -> "pxY1" [] stage = "Y2" -> "pxY2"
stageAfter(stage) ==
    CASE stage = "X1" -> "X2" [] stage = "X2" -> "Y1"
      [] stage = "Y1" -> "Y2" [] stage = "Y2" -> "done"

\* a calibration click at p: the pick of the current stage becomes a tick of
\* the stage's axis that is nearest to p, if one is within 14 px, and the
\* stage moves on; otherwise nothing changes
pickRule(p) ==
    \A ticks \in { IF calibStage \in { "X1", "X2" } THEN state.autoDetect.v.tickPointsX
                   ELSE state.autoDetect.v.tickPointsY } :
        IF calibStage = "done"
           \/ \A i \in 1 .. Len(ticks) : RLt(RMul(Num(14), Num(14)), dist2(p, ticks[i]))
        THEN UNCHANGED <<state, calibStage>>
        ELSE /\ \E i \in 1 .. Len(ticks) :
                   /\ \A j \in 1 .. Len(ticks) : RLe(dist2(p, ticks[i]), dist2(p, ticks[j]))
                   /\ state'.calibration[stageField(calibStage)] = Some(ticks[i])
             /\ \A f \in { "pxX1", "pxX2", "pxY1", "pxY2" } \ { stageField(calibStage) } :
                   state'.calibration[f] = calib[f]
             /\ calibStage' = stageAfter(calibStage)

\* C28: while a detection result is present, the stored pxX1 and pxX2 are
\* ticks of its tickPointsX and pxY1 and pxY2 ticks of its tickPointsY; a
\* calibration click fills the pick of the current stage, in the order X1, X2,
\* Y1, Y2, with the nearest tick of that stage's axis when it is within 14 px
\* and changes neither state nor stage otherwise; and a run of the detection
\* leaves no pick and the stage X1.
SessionPicks ==
    /\ [](hasAutoDetect =>
             /\ \A f \in { "pxX1", "pxX2" } :
                   calib[f].some =>
                       \E i \in 1 .. Len(state.autoDetect.v.tickPointsX) :
                           state.autoDetect.v.tickPointsX[i] = calib[f].v
             /\ \A f \in { "pxY1", "pxY2" } :
                   calib[f].some =>
                       \E i \in 1 .. Len(state.autoDetect.v.tickPointsY) :
                           state.autoDetect.v.tickPointsY[i] = calib[f].v)
    /\ [][/\ \A p \in CalibClicks : (hasAutoDetect /\ calibrationClick(p)) => pickRule(p)
          /\ onAutoDetect =>
                /\ \A f \in { "pxX1", "pxX2", "pxY1", "pxY2" } : ~state'.calibration[f].some
                /\ calibStage' = "X1"
         ]_vars

\* the four picks are made, on two X ticks and two Y ticks of the detection
SessionPicked ==
    /\ hasAutoDetect
    /\ calibStage = "done"
    /\ calib.pxX1.some /\ calib.pxX2.some /\ calib.pxY1.some /\ calib.pxY2.some
    /\ calib.pxX1 # calib.pxX2
    /\ calib.pxY1 # calib.pxY2

\* C29, as claimed: the bitmap in state is never a closed one, and once no
\* upload is being decoded the state holds the bitmap of the file selected
\* last and every other bitmap created has been closed.
HostLatestUpload ==
    /\ state.image.some => state.image.v.bitmap \notin closed
    /\ (uploads = {} /\ state.image.some) =>
           /\ state.image.v.bitmap = bitmaps
           /\ closed = (1 .. bitmaps) \ { state.image.v.bitmap }

\* the part of it that holds: the bitmap in state is not closed
HostBitmapOpen == state.image.some => state.image.v.bitmap \notin closed

\* an axis ROI or the pixel buffer is replaced in this step
upstreamReplaced ==
    \/ state'.roiImageData # state.roiImageData
    \/ state'.axisRoiX # state.axisRoiX
    \/ state'.axisRoiY # state.axisRoiY

\* C3: whenever the pixel buffer or an axis ROI is replaced, no detection
\* result, mapper, blacklist predicate, seed or traced point is left in state,
\* and whenever the detection result is absent, no mapper, blacklist predicate
\* or traced points are present
HostInvalidation ==
    /\ [](~state.autoDetect.some =>
              /\ ~calib.pixelToData.some
              /\ ~calib.isBlacklistedPixel.some
              /\ ~curve.points.some)
    /\ [][upstreamReplaced =>
              /\ ~state'.autoDetect.some
              /\ ~state'.calibration.pixelToData.some
              /\ ~state'.calibration.isBlacklistedPixel.some
              /\ state'.curve.seeds = <<>>
              /\ ~state'.curve.points.some]_vars

\* the two picks of an axis are the same tick
degeneratePicks == calib.pxX1 = calib.pxX2 \/ calib.pxY1 = calib.pxY2

\* C4: a Build Calibration with pxX1 = pxX2 or pxY1 = pxY2 fails with the
\* degenerate-calibration error, the state holds no mapper and no blacklist
\* predicate after it, and picks, values, seeds and points are as before
HostBuildFailure ==
    [][(buildCalibration /\ degeneratePicks) =>
           /\ error' = Some(DegenerateMsg)
           /\ ~state'.calibration.pixelToData.some
           /\ ~state'.calibration.isBlacklistedPixel.some
           /\ state'.calibration = calib
           /\ state'.curve = curve]_vars

\* a build has failed on two picks of the same Y tick, the X picks being two
\* ticks apart
HostBuildFailed ==
    /\ state.image.some
    /\ canBuildCalibration
    /\ calib.pxY1 = calib.pxY2
    /\ calib.pxX1 # calib.pxX2
    /\ error = Some(DegenerateMsg)
    /\ ~calib.pixelToData.some

====
